---- MODULE Spec2Model ----
(***************************************************************************)
(* A model of os8pip.c: the OS/8 directory engine (cursor walk, lookup,    *)
(* get_empty_entry, enter, delete_entry, consolidate) at the level of the  *)
(* 256-word directory segments it shuffles, and the commands of main()     *)
(* that drive it (copy to the image, delete, commit by write_directory).   *)
(*                                                                         *)
(* Words are pdp8_word_t (unsigned short): every store keeps 16 bits.      *)
(* A pointer into a segment is the word offset from d.data (0..255); a     *)
(* dir_block_t pointer is the 1-based segment number, which is the value   *)
(* next_segment uses and the block the segment is written to.              *)
(***************************************************************************)
EXTENDS Integers, Sequences, FiniteSets, TLC

OS8_BLOCK_SIZE == 256

DIR_LENGTH == 6

FIRST_DIR_BLOCK == 1

empty_entry_length == 2

\* sizeof(name_t) / sizeof(pdp8_word_t)
NAME_WORDS == 4

\* DECTAPE_BLOCKS: OS8_DECTAPE_LENGTH / (OS8_BLOCK_SIZE * 2) = 377344 / 512
DECTAPE_BLOCKS == 737

\* pdp8_word_t is an unsigned short: 2^16
WORD_MOD == 65536

\* a 12-bit word: 2^12, the modulus of negate and the limit 0170000 tests
PDP8_MOD == 4096

\* 01400 and 01777, the range of a non-zero flag word
FLAG_BASE == 768

FLAG_MAX == 1023

\* validate_directory: the file count and the additional words of a segment
\* stay below these
VALID_FILES == 100

VALID_ADDITIONAL == 10

\* a store into a pdp8_word_t
W16(x) == x % WORD_MOD

MIN(a, b) == IF a < b THEN a ELSE b

\* perform a twos-complement negation: (4096 - word) % 4096 on ints, where C's
\* remainder takes the sign of the dividend
negate(word) ==
    IF word <= PDP8_MOD THEN (PDP8_MOD - word) % PDP8_MOD
    ELSE 0 - ((word - PDP8_MOD) % PDP8_MOD)

\* bit k of x
bit(x, k) == (x \div (2 ^ k)) % 2

\* &, | and ^ on the four bits of x and y from bit k on
And4(x, y, k) ==
    (bit(x, k) * bit(y, k) + 2 * (bit(x, k + 1) * bit(y, k + 1)))
    + (4 * (bit(x, k + 2) * bit(y, k + 2)) + 8 * (bit(x, k + 3) * bit(y, k + 3)))

\* bit k of x ^ y
xor1(x, y, k) == (bit(x, k) + bit(y, k)) % 2

Xor4(x, y, k) ==
    (xor1(x, y, k) + 2 * xor1(x, y, k + 1))
    + (4 * xor1(x, y, k + 2) + 8 * xor1(x, y, k + 3))

\* a & b, a | b and a ^ b on pdp8_word_t
BitAnd(a, b) ==
    (And4(a, b, 0) + 16 * And4(a, b, 4)) + (256 * And4(a, b, 8) + 4096 * And4(a, b, 12))

BitXor(a, b) ==
    (Xor4(a, b, 0) + 16 * Xor4(a, b, 4)) + (256 * Xor4(a, b, 8) + 4096 * Xor4(a, b, 12))

BitOr(a, b) == BitAnd(a, b) + BitXor(a, b)

\* the most turns a while loop over the entries takes in the model; a loop that
\* has not ended by then leaves no directory a run could go on with
MaxTurns == 63

ended(st) == IF st.done THEN st ELSE "the loop has not ended"

(***************************************************************************)
(* Segment memory.  data is the os8_block_t of the union, a sequence of    *)
(* OS8_BLOCK_SIZE words; offset o is data[o + 1].                          *)
(***************************************************************************)
OFF_number_files == 0

OFF_first_file_block == 1

OFF_next_segment == 2

OFF_flag_word == 3

OFF_additional_words == 4

OFF_file_entries == 5

\* *(d.data + off); a read past the block yields 0 (see peek_entry)
Rd(data, off) == IF off >= 0 /\ off < OS8_BLOCK_SIZE THEN data[off + 1] ELSE 0

number_files(blk) == blk.data[OFF_number_files + 1]

first_file_block(blk) == blk.data[OFF_first_file_block + 1]

next_segment(blk) == blk.data[OFF_next_segment + 1]

flag_word(blk) == blk.data[OFF_flag_word + 1]

additional_words(blk) == blk.data[OFF_additional_words + 1]

\* d.data[off] = w (off inside the block)
Wr(data, off, w) == [data EXCEPT ![off + 1] = w]

\* while (src >= last) *dst-- = *src--;   with dst = src + k
shuffle_words_up(data, src, k, last) ==
    IF src < last \/ k = 0 THEN data
    ELSE SubSeq(data, 1, last + k) \o SubSeq(data, last + 1, src + 1)
         \o SubSeq(data, src + k + 2, OS8_BLOCK_SIZE)

\* while (src <= last) *dst++ = *src++;   with last = &d.data[OS8_BLOCK_SIZE - 1]
\* and dst = src - k
shuffle_words_down(data, src, k) ==
    IF src > OS8_BLOCK_SIZE - 1 \/ k = 0 THEN data
    ELSE SubSeq(data, 1, src - k) \o SubSeq(data, src + 1, OS8_BLOCK_SIZE)
         \o SubSeq(data, OS8_BLOCK_SIZE - k + 1, OS8_BLOCK_SIZE)

(***************************************************************************)
(* Cursors and entries.  A cursor_t is [file_number, next_block, entry,    *)
(* dir_block]; an entry_t is [empty_file, name, dir_block, entry,          *)
(* file_block, file_number, length, additional_words, additional_count].   *)
(* dir is the directory_t: a sequence of DIR_LENGTH records [dirty, data]. *)
(***************************************************************************)
init_cursor(dir) ==
    [file_number |-> 1,
     next_block  |-> first_file_block(dir[1]),
     entry       |-> OFF_file_entries,
     dir_block   |-> 1]

overflowed_segment(dir, cursor) ==
    cursor.file_number > negate(number_files(dir[cursor.dir_block]))

\* set cursor to the next valid file entry: [ok, cursor].  The assert
\* (next_segment <= DIR_LENGTH) ends the walk; no directory the commands work on
\* has a next_segment beyond DIR_LENGTH, validate_directory refuses it.
RECURSIVE valid_entry(_, _)
valid_entry(dir, cursor) ==
    IF ~overflowed_segment(dir, cursor) THEN [ok |-> TRUE, cursor |-> cursor]
    ELSE LET nxt == next_segment(dir[cursor.dir_block])
         IN IF nxt = 0 \/ nxt > DIR_LENGTH THEN [ok |-> FALSE, cursor |-> cursor]
            ELSE valid_entry(dir, [file_number |-> 1,
                                   dir_block   |-> nxt,
                                   next_block  |-> first_file_block(dir[nxt]),
                                   entry       |-> OFF_file_entries])

file_entry_length(blk) == NAME_WORDS + 1 + negate(additional_words(blk))

entry_length(dir, entry) ==
    IF entry.empty_file THEN empty_entry_length
    ELSE file_entry_length(dir[entry.dir_block])

advance_cursor(dir, cursor, entry) ==
    [cursor EXCEPT !.file_number = W16(@ + 1),
                   !.entry = @ + entry_length(dir, entry),
                   !.next_block = W16(@ + entry.length)]

restore_cursor(cursor, entry) ==
    [file_number |-> entry.file_number,
     entry       |-> entry.entry,
     next_block  |-> entry.file_block,
     dir_block   |-> entry.dir_block]

\* get file entry data but don't advance cursor.  The fields C leaves stale for
\* an empty entry (name, additional words) are never read before being set.
peek_entry(dir, cursor) ==
    LET data == dir[cursor.dir_block].data
        e == cursor.entry
        cnt == W16(negate(additional_words(dir[cursor.dir_block])))
    IN IF Rd(data, e) = 0
       THEN [empty_file |-> TRUE, name |-> <<0, 0, 0, 0>>,
             dir_block |-> cursor.dir_block, entry |-> e,
             file_block |-> cursor.next_block, file_number |-> cursor.file_number,
             length |-> W16(negate(Rd(data, e + 1))),
             additional_words |-> <<>>, additional_count |-> 0]
       ELSE [empty_file |-> FALSE,
             name |-> <<Rd(data, e), Rd(data, e + 1), Rd(data, e + 2), Rd(data, e + 3)>>,
             dir_block |-> cursor.dir_block, entry |-> e,
             file_block |-> cursor.next_block, file_number |-> cursor.file_number,
             length |-> W16(negate(Rd(data, e + NAME_WORDS + cnt))),
             additional_words |->
                 [i \in 1..MIN(10, cnt) |-> Rd(data, e + NAME_WORDS + i - 1)],
             additional_count |-> cnt]

\* [entry, cursor]: the entry read and the cursor advanced past it
entry_and_cursor(dir, cursor, entry) ==
    [entry |-> entry, cursor |-> advance_cursor(dir, cursor, entry)]

\* get file entry data and advance cursor: [entry, cursor]
get_entry(dir, cursor) == entry_and_cursor(dir, cursor, peek_entry(dir, cursor))

\* the words put_entry stores at entry.entry
entry_words(entry) ==
    IF entry.empty_file THEN <<0, W16(negate(entry.length))>>
    ELSE entry.name
         \o [i \in 1..entry.additional_count |->
                IF i <= MIN(10, entry.additional_count)
                THEN entry.additional_words[i] ELSE 0]
         \o <<W16(negate(entry.length))>>

\* the words of data from offset off replaced by ws
WrSeq(data, off, ws) ==
    SubSeq(data, 1, off) \o ws \o SubSeq(data, off + Len(ws) + 1, OS8_BLOCK_SIZE)

\* puts file entry data and marks the current directory block dirty
put_entry(dir, entry) ==
    [dir EXCEPT ![entry.dir_block] =
        [dirty |-> TRUE, data |-> WrSeq(@.data, entry.entry, entry_words(entry))]]

\* bump_number_files without the dirty mark
bump_number_files_clean(dir, blk, amount) ==
    [dir EXCEPT ![blk] =
        [dirty |-> @.dirty,
         data |-> Wr(@.data, OFF_number_files, W16(number_files(@) - amount))]]

bump_number_files(dir, blk, amount) ==
    [dir EXCEPT ![blk] =
        [dirty |-> TRUE,
         data |-> Wr(@.data, OFF_number_files, W16(number_files(@) - amount))]]

bump_first_file_block(dir, blk, amount) ==
    [dir EXCEPT ![blk] =
        [dirty |-> TRUE,
         data |-> Wr(@.data, OFF_first_file_block, W16(first_file_block(@) + amount))]]

set_next_segment(dir, blk, nxt) ==
    [dir EXCEPT ![blk] =
        [dirty |-> TRUE, data |-> Wr(@.data, OFF_next_segment, nxt)]]

\* the flag word after fix_segment_up moved the words from entry.entry up
flag_up(flag, entry_off, offset) ==
    IF flag # 0 /\ flag - FLAG_BASE > entry_off
    THEN (IF flag + offset > FLAG_MAX THEN 0 ELSE flag + offset)
    ELSE flag

\* a fix_segment_up that leaves the flag word alone
fix_segment_up_words(dir, entry, offset, first_byte) ==
    [dir EXCEPT ![entry.dir_block].data =
        shuffle_words_up(@, first_byte, offset, entry.entry)]

fix_segment_up(dir, entry, offset, first_byte) ==
    [dir EXCEPT ![entry.dir_block].data =
        Wr(shuffle_words_up(@, first_byte, offset, entry.entry), OFF_flag_word,
           flag_up(@[OFF_flag_word + 1], entry.entry, offset))]

\* the flag word after fix_segment_down moved the words behind the entry down
flag_down(flag, entry_off, delta) ==
    IF flag # 0 /\ flag - FLAG_BASE > entry_off THEN W16(flag - delta) ELSE flag

fix_segment_down(dir, entry, offset) ==
    LET len == entry_length(dir, entry)
    IN [dir EXCEPT ![entry.dir_block].data =
          Wr(shuffle_words_down(@, entry.entry + len, len - offset), OFF_flag_word,
             flag_down(@[OFF_flag_word + 1], entry.entry, len - offset))]

(***************************************************************************)
(* File names.  A host string is the sequence of its character codes.      *)
(***************************************************************************)
CH_STAR == 42

CH_DOT == 46

\* "os8:"
os8_prefix == <<111, 115, 56, 58>>

tolower(c) == IF c >= 65 /\ c <= 90 THEN c + 32 ELSE c

\* strstr(filename, "os8:") ? filename + 4 : filename
strip_device(filename) ==
    IF \E k \in 1..Len(filename) :
          k + 3 <= Len(filename) /\ SubSeq(filename, k, k + 3) = os8_prefix
    THEN SubSeq(filename, 5, Len(filename))
    ELSE filename

\* the loop of build_sixbit from character k on, i the sixbit position
RECURSIVE build_sixbit_from(_, _, _, _)
build_sixbit_from(filename, k, i, name) ==
    IF k > Len(filename) THEN name
    ELSE IF filename[k] = CH_STAR THEN build_sixbit_from(filename, k + 1, i, name)
    ELSE IF filename[k] = CH_DOT THEN build_sixbit_from(filename, k + 1, 6, name)
    ELSE LET lc == tolower(filename[k])
             c == IF lc < 96 THEN lc ELSE lc - 96
         IN build_sixbit_from(filename, k + 1, i + 1,
                [name EXCEPT ![(i \div 2) + 1] =
                    IF i % 2 = 1 THEN BitOr(c, @) ELSE W16(c * 64)])

build_sixbit(filename) == build_sixbit_from(filename, 1, 0, <<0, 0, 0, 0>>)

\* while (i <= finish) { mask[i/2] &= i & 1 ? 07700 : 0; i++; }
RECURSIVE clear_mask(_, _, _)
clear_mask(mask, i, finish) ==
    IF i > finish THEN mask
    ELSE clear_mask([mask EXCEPT ![(i \div 2) + 1] =
                        BitAnd(@, IF i % 2 = 1 THEN 4032 ELSE 0)],
                    i + 1, finish)

RECURSIVE build_mask_part_from(_, _, _, _, _)
build_mask_part_from(filename, k, mask, i, finish) ==
    IF k > Len(filename) \/ filename[k] = CH_DOT THEN mask
    ELSE IF filename[k] = CH_STAR THEN clear_mask(mask, i, finish)
    ELSE build_mask_part_from(filename, k + 1, mask, i + 1, finish)

build_mask_part(filename, mask, start, finish) ==
    build_mask_part_from(filename, 1, mask, start, finish)

\* the position of the first '.', 0 when there is none (strchr)
dot_pos(filename) ==
    IF \E k \in 1..Len(filename) : filename[k] = CH_DOT
    THEN CHOOSE k \in 1..Len(filename) :
            filename[k] = CH_DOT /\ \A j \in 1..(k - 1) : filename[j] # CH_DOT
    ELSE 0

\* a build_mask that takes no notice of a '*' in the extension
build_mask_file(filename) ==
    build_mask_part(filename, <<4095, 4095, 4095, 4095>>, 0, 5)

build_mask(filename) ==
    LET m1 == build_mask_part(filename, <<4095, 4095, 4095, 4095>>, 0, 5)
        d == dot_pos(filename)
    IN IF d # 0
       THEN build_mask_part(SubSeq(filename, d + 1, Len(filename)), m1, 6, 7)
       ELSE m1

build_pattern(filename) ==
    [match |-> build_sixbit(filename), mask |-> build_mask(filename)]

pattern_match_p(name, pattern) ==
    \A i \in 1..NAME_WORDS :
        BitAnd(BitXor(name[i], pattern.match[i]), pattern.mask[i]) = 0

(***************************************************************************)
(* The directory engine.                                                   *)
(***************************************************************************)
\* the condition validate_directory tests on segment i
sane_segment(dir, i) ==
    /\ next_segment(dir[i]) <= DIR_LENGTH
    /\ number_files(dir[i]) # 0
    /\ negate(number_files(dir[i])) < VALID_FILES
    /\ negate(additional_words(dir[i])) < VALID_ADDITIONAL
    /\ \/ flag_word(dir[i]) = 0
       \/ flag_word(dir[1]) >= FLAG_BASE /\ flag_word(dir[i]) <= FLAG_MAX

\* every segment of the chain from segment i on passes the sanity checks; fuel
\* bounds the walk (the C loop does not end on a cyclic chain)
RECURSIVE validate_from(_, _, _)
validate_from(dir, i, fuel) ==
    LET blk == dir[i]
        ok == sane_segment(dir, i)
    IN IF ~ok THEN FALSE
       ELSE IF next_segment(blk) = 0 \/ fuel = 0 THEN TRUE
       ELSE validate_from(dir, next_segment(blk), fuel - 1)

validate_directory(dir) == validate_from(dir, 1, DIR_LENGTH)

\* a consolidate that takes the next empty entry for adjacent wherever
\* valid_entry finds it, in the next segment as well
consolidate_step_across(dir, g) ==
    IF g.entry.empty_file /\ g.entry.length = 0
    THEN [dir |-> bump_number_files(fix_segment_down(dir, g.entry, 0),
                                    g.entry.dir_block, -1),
          cursor |-> g.cursor, done |-> FALSE]
    ELSE IF /\ g.entry.empty_file
            /\ valid_entry(dir, g.cursor).ok
            /\ peek_entry(dir, valid_entry(dir, g.cursor).cursor).empty_file
    THEN [dir |-> bump_number_files(
                      fix_segment_down(
                          put_entry(dir,
                                    [g.entry EXCEPT
                                        !.length =
                                            W16(@ + peek_entry(dir, valid_entry(dir, g.cursor).cursor).length)]),
                          peek_entry(dir, valid_entry(dir, g.cursor).cursor), 0),
                      valid_entry(dir, g.cursor).cursor.dir_block, -1),
          cursor |-> restore_cursor(g.cursor, g.entry), done |-> FALSE]
    ELSE [dir |-> dir, cursor |-> g.cursor, done |-> FALSE]

\* the body of the while loop of consolidate: g is what get_entry gave, the
\* entry and the cursor behind it
consolidate_step(dir, g) ==
    IF g.entry.empty_file /\ g.entry.length = 0
    THEN \* remove zero length empty file
         [dir |-> bump_number_files(fix_segment_down(dir, g.entry, 0),
                                    g.entry.dir_block, -1),
          cursor |-> g.cursor, done |-> FALSE]
    ELSE IF /\ g.entry.empty_file
            /\ ~overflowed_segment(dir, g.cursor)
            /\ peek_entry(dir, g.cursor).empty_file
    THEN \* two adjacent empty entries in the same segment: the first takes the
         \* length of both, the segment is scrunched over the second, and the
         \* cursor goes back to the first
         [dir |-> bump_number_files(
                      fix_segment_down(
                          put_entry(dir,
                                    [g.entry EXCEPT
                                        !.length =
                                            W16(@ + peek_entry(dir, g.cursor).length)]),
                          peek_entry(dir, g.cursor), 0),
                      g.entry.dir_block, -1),
          cursor |-> restore_cursor(g.cursor, g.entry), done |-> FALSE]
    ELSE [dir |-> dir, cursor |-> g.cursor, done |-> FALSE]

\* one turn of while (valid_entry(&cursor)) in consolidate
consolidate_turn(st) ==
    IF ~valid_entry(st.dir, st.cursor).ok THEN [st EXCEPT !.done = TRUE]
    ELSE consolidate_step(st.dir, get_entry(st.dir, valid_entry(st.dir, st.cursor).cursor))

\* up to n turns of the loop, the first half of them before the rest
RECURSIVE consolidate_while(_, _)

consolidate_rest(st, n) == consolidate_while(st, n)

consolidate_while(st, n) ==
    IF st.done THEN st
    ELSE IF n = 1 THEN consolidate_turn(st)
    ELSE consolidate_rest(consolidate_while(st, n \div 2), n - (n \div 2))

consolidate(dir) ==
    ended(consolidate_while([dir |-> dir, cursor |-> init_cursor(dir), done |-> FALSE],
                            MaxTurns)).dir

\* one turn of while (!overflowed_segment(cursor)) in get_last_entry
get_last_turn(st) ==
    IF overflowed_segment(st.dir, st.cursor) THEN [st EXCEPT !.done = TRUE]
    ELSE [st EXCEPT !.entry = peek_entry(st.dir, st.cursor),
                    !.cursor = advance_cursor(st.dir, st.cursor,
                                              peek_entry(st.dir, st.cursor))]

RECURSIVE get_last_while(_, _)

get_last_rest(st, n) == get_last_while(st, n)

get_last_while(st, n) ==
    IF st.done THEN st
    ELSE IF n = 1 THEN get_last_turn(st)
    ELSE get_last_rest(get_last_while(st, n \div 2), n - (n \div 2))

\* an entry_t nothing was stored in
NoEntry ==
    [empty_file |-> TRUE, name |-> <<0, 0, 0, 0>>, dir_block |-> 0, entry |-> 0,
     file_block |-> 0, file_number |-> 0, length |-> 0,
     additional_words |-> <<>>, additional_count |-> 0]

\* the entry_t get_last_entry leaves untouched when the segment has no files:
\* its caller's variable is uninitialised and holds no offset that could be
\* computed with, so a run that got here would stop as an evaluation error
uninit_entry(blk) ==
    [NoEntry EXCEPT !.dir_block = blk, !.entry = "uninitialised",
                    !.file_block = "uninitialised"]

\* Just like the OS/8's USR, walk the entries until we find the last
get_last_entry(dir, blk) ==
    ended(get_last_while(
              [dir |-> dir,
               cursor |-> [file_number |-> 1, next_block |-> first_file_block(dir[blk]),
                           entry |-> OFF_file_entries, dir_block |-> blk],
               entry |-> uninit_entry(blk), done |-> FALSE],
              MaxTurns)).entry

\* the first word behind entry if size more words fit, -1 (NULL) otherwise
unused_behind(empty_ptr, size) ==
    IF empty_ptr + size < OS8_BLOCK_SIZE THEN empty_ptr ELSE -1

end_of_entry(dir, entry) == entry.entry + entry_length(dir, entry)

\* the offset of the first unused word if size more words fit, -1 (NULL) otherwise
get_unused_ptr(dir, blk, size) ==
    unused_behind(end_of_entry(dir, get_last_entry(dir, blk)), size)

\* a get_empty_entry that takes no notice of exclude_entry
better_entry_any(entry, exclude_entry, best_entry, length) ==
    /\ entry.empty_file
    /\ entry.length >= length
    /\ \/ best_entry.length = 0
       \/ IF length = 0 THEN entry.length > best_entry.length
          ELSE entry.length < best_entry.length

\* the if of get_empty_entry: entry becomes the best entry
better_entry(entry, exclude_entry, best_entry, length) ==
    /\ \/ entry.dir_block # exclude_entry.dir_block
       \/ entry.file_number # exclude_entry.file_number
    /\ entry.empty_file
    /\ entry.length >= length
    /\ \/ best_entry.length = 0
       \/ IF length = 0 THEN entry.length > best_entry.length
          ELSE entry.length < best_entry.length

get_empty_step(st, g) ==
    IF better_entry(g.entry, st.exclude_entry, st.best_entry, st.length)
    THEN [st EXCEPT !.cursor = g.cursor, !.best_entry = g.entry]
    ELSE [st EXCEPT !.cursor = g.cursor]

\* one turn of while (valid_entry(&cursor)) in get_empty_entry
get_empty_turn(st) ==
    IF ~valid_entry(st.dir, st.cursor).ok THEN [st EXCEPT !.done = TRUE]
    ELSE get_empty_step(st, get_entry(st.dir, valid_entry(st.dir, st.cursor).cursor))

RECURSIVE get_empty_while(_, _)

get_empty_rest(st, n) == get_empty_while(st, n)

get_empty_while(st, n) ==
    IF st.done THEN st
    ELSE IF n = 1 THEN get_empty_turn(st)
    ELSE get_empty_rest(get_empty_while(st, n \div 2), n - (n \div 2))

found_entry(best) == [ok |-> best.length # 0, entry |-> best]

\* [ok, entry]: the best fitting (length # 0) or the biggest (length = 0) empty file
get_empty_entry(dir, exclude_entry, length) ==
    found_entry(
        ended(get_empty_while(
                  [dir |-> dir, cursor |-> init_cursor(dir),
                   exclude_entry |-> exclude_entry, best_entry |-> NoEntry,
                   length |-> length, done |-> FALSE],
                  MaxTurns)).best_entry)

\* a lookup that also returns the files of length zero
lookup_step_any(st, g) ==
    IF /\ ~g.entry.empty_file
       /\ pattern_match_p(g.entry.name, st.pattern)
    THEN [st EXCEPT !.ok = TRUE, !.entry = g.entry, !.cursor = g.cursor, !.done = TRUE]
    ELSE [st EXCEPT !.cursor = g.cursor]

lookup_step(st, g) ==
    IF /\ ~g.entry.empty_file
       /\ g.entry.length # 0
       /\ pattern_match_p(g.entry.name, st.pattern)
    THEN [st EXCEPT !.ok = TRUE, !.entry = g.entry, !.cursor = g.cursor, !.done = TRUE]
    ELSE [st EXCEPT !.cursor = g.cursor]

\* one turn of while (valid_entry(cursor)) in lookup
lookup_turn(st) ==
    IF ~valid_entry(st.dir, st.cursor).ok
    THEN [st EXCEPT !.cursor = valid_entry(st.dir, st.cursor).cursor, !.done = TRUE]
    ELSE lookup_step(st, get_entry(st.dir, valid_entry(st.dir, st.cursor).cursor))

RECURSIVE lookup_while(_, _)

lookup_rest(st, n) == lookup_while(st, n)

lookup_while(st, n) ==
    IF st.done THEN st
    ELSE IF n = 1 THEN lookup_turn(st)
    ELSE lookup_rest(lookup_while(st, n \div 2), n - (n \div 2))

lookup_result(st) == [ok |-> st.ok, entry |-> st.entry, cursor |-> st.cursor]

\* [ok, entry, cursor]: the next matching file from the cursor on
lookup(filename, dir, cursor) ==
    lookup_result(
        ended(lookup_while(
                  [pattern |-> build_pattern(strip_device(filename)), dir |-> dir,
                   cursor |-> cursor, entry |-> NoEntry, ok |-> FALSE, done |-> FALSE],
                  MaxTurns)))

\* a delete_entry that scrunches the segment down but leaves the file an
\* empty entry of no blocks
delete_entry_no_blocks(dir, entry) ==
    put_entry(fix_segment_down(dir, entry, empty_entry_length),
              [entry EXCEPT !.empty_file = TRUE, !.length = 0])

delete_entry(dir, entry) ==
    put_entry(fix_segment_down(dir, entry, empty_entry_length),
              [entry EXCEPT !.empty_file = TRUE])

\* unsigned index_from_dir_block: the 0-based index of the segment
index_from_dir_block(blk) == blk - 1

\* enter, lines 862-869: the moved entry is stored at the front of its new
\* segment; the entry being entered follows it there if it is the one moved
move_store(dir, entry, next_unused_ptr, last_entry, moved) ==
    [dir |-> put_entry(fix_segment_up(dir, moved, entry_length(dir, moved),
                                      next_unused_ptr),
                       moved),
     entry |-> IF /\ last_entry.file_number = entry.file_number
                  /\ last_entry.dir_block = entry.dir_block
               THEN moved ELSE entry]

\* enter, lines 856-860: make the last entry on this dir_block become the first
\* on the next
move_retarget(dir, entry, nxt, next_unused_ptr, last_entry) ==
    move_store(dir, entry, next_unused_ptr, last_entry,
               [last_entry EXCEPT !.dir_block = nxt,
                                  !.entry = OFF_file_entries,
                                  !.file_number = 1,
                                  !.file_block = first_file_block(dir[nxt])])

\* enter, lines 851-854: dir_block's loss is next_dir_block's gain
move_counts(dir, entry, blk, nxt, next_unused_ptr, last_entry) ==
    move_retarget(
        bump_first_file_block(
            bump_number_files(bump_number_files(dir, blk, -1), nxt, 1),
            nxt, 0 - last_entry.length),
        entry, nxt, next_unused_ptr, last_entry)

\* enter, lines 844-869: the last entry of blk becomes the first entry of nxt,
\* whose first unused word is next_unused_ptr: [dir, entry]
move_last_entry(dir, entry, blk, nxt, next_unused_ptr) ==
    move_counts(dir, entry, blk, nxt, next_unused_ptr, get_last_entry(dir, blk))

at_block(m, blk) == [dir |-> m.dir, entry |-> m.entry, dir_block |-> blk]

RECURSIVE find_room(_, _, _, _)

find_room_next(dir, entry, blk, nxt, min_free_length, next_unused_ptr) ==
    IF next_unused_ptr # -1
    THEN at_block(move_last_entry(dir, entry, blk, nxt, next_unused_ptr), blk)
    ELSE find_room(dir, entry, nxt, min_free_length)

\* enter, lines 839-873: the inner while; [dir, entry, dir_block] when it is left
find_room(dir, entry, blk, min_free_length) ==
    IF next_segment(dir[blk]) = 0
    THEN [dir |-> dir, entry |-> entry, dir_block |-> blk]
    ELSE find_room_next(dir, entry, blk, next_segment(dir[blk]), min_free_length,
                        get_unused_ptr(dir, next_segment(dir[blk]), min_free_length))

\* enter, lines 886-896: the header and the zero-length empty file of the new
\* segment directory[index]
append_header(dir, blk, index, temp_entry) ==
    [dir EXCEPT ![index + 1].data =
        WrSeq(@, 0,
              <<negate(1),
                W16(temp_entry.file_block + entry_length(dir, temp_entry)),
                0, 0, additional_words(dir[blk]), 0, 0>>)]

\* enter, lines 884-897: a new segment behind blk, the last of the chain
append_linked(dir, blk, index) ==
    append_header(dir, blk, index, get_last_entry(dir, blk))

append_segment(dir, blk) ==
    append_linked(set_next_segment(dir, blk, index_from_dir_block(blk) + 2), blk,
                  index_from_dir_block(blk) + 1)

RECURSIVE make_room(_, _, _)

make_room_found(f, min_free_length) ==
    IF next_segment(f.dir[f.dir_block]) # 0
    THEN make_room(f.dir, f.entry, min_free_length)
    ELSE IF index_from_dir_block(f.dir_block) + 1 < DIR_LENGTH
    THEN make_room(append_segment(f.dir, f.dir_block), f.entry, min_free_length)
    ELSE [ok |-> FALSE, dir |-> f.dir, entry |-> f.entry, unused_ptr |-> -1]

make_room_at(dir, entry, min_free_length, unused_ptr) ==
    IF unused_ptr # -1
    THEN [ok |-> TRUE, dir |-> dir, entry |-> entry, unused_ptr |-> unused_ptr]
    ELSE make_room_found(find_room(dir, entry, entry.dir_block, min_free_length),
                         min_free_length)

\* enter, lines 823-902: the outer while; [ok, dir, entry, unused_ptr]
make_room(dir, entry, min_free_length) ==
    make_room_at(dir, entry, min_free_length,
                 get_unused_ptr(dir, entry.dir_block, min_free_length))

\* enter, lines 927-943: the empty file behind the new entry keeps what is left
enter_rest(length, dir, rest) ==
    IF ~rest.empty_file \/ ~(rest.length >= length)
    THEN [status |-> "abort", dir |-> dir]
    ELSE [status |-> "ok",
          dir |-> consolidate(put_entry(dir, [rest EXCEPT !.length = W16(@ - length)]))]

\* enter, lines 918-922
enter_put(length, dir, file) ==
    enter_rest(length, put_entry(dir, file),
               peek_entry(put_entry(dir, file),
                          advance_cursor(dir, restore_cursor(init_cursor(dir), file),
                                         file)))

\* enter, lines 911-917
enter_file(filename, length, dir, entry) ==
    enter_put(length, dir,
              [entry EXCEPT
                  !.empty_file = FALSE,
                  !.name = build_sixbit(filename),
                  !.additional_count = W16(negate(additional_words(dir[entry.dir_block]))),
                  !.additional_words =
                      [i \in 1..MIN(10, W16(negate(additional_words(dir[entry.dir_block]))))
                          |-> 0],
                  !.length = W16(length)])

\* enter, lines 904-909, with the result r of the while loop
enter_made(filename, length, new_entry_length, r) ==
    IF ~r.ok THEN [status |-> "full", dir |-> r.dir]
    ELSE IF ~validate_directory(r.dir) THEN [status |-> "abort", dir |-> r.dir]
    ELSE enter_file(filename, length,
                    bump_number_files(
                        fix_segment_up(r.dir, r.entry, new_entry_length, r.unused_ptr),
                        r.entry.dir_block, 1),
                    r.entry)

\* Enter a file into the directory after the data has been written:
\* [status, dir] with status "ok" (true), "full" (false) or "abort" (an assert)
enter(filename, length, dir, entry) ==
    enter_made(filename, length, file_entry_length(dir[entry.dir_block]),
               make_room(dir, entry,
                         file_entry_length(dir[entry.dir_block]) + empty_entry_length))

(***************************************************************************)
(* The file streamer and the commands of main().                           *)
(***************************************************************************)
\* entry_t exclude_entry = {0}
ZeroEntry ==
    [empty_file |-> FALSE, name |-> <<0, 0, 0, 0>>, dir_block |-> 0, entry |-> 0,
     file_block |-> 0, file_number |-> 0, length |-> 0,
     additional_words |-> <<>>, additional_count |-> 0]

allocated(dir, exclude_entry, g) ==
    [ok |-> g.ok, dir |-> dir, entry |-> g.entry, exclude_entry |-> exclude_entry]

allocate_from(dir, exclude_entry, size) ==
    allocated(dir, exclude_entry, get_empty_entry(dir, exclude_entry, size))

allocate_found(l, size, dir) ==
    IF l.ok
    THEN allocate_from(delete_entry(dir, l.entry), [l.entry EXCEPT !.empty_file = TRUE],
                       size)
    ELSE allocate_from(dir, ZeroEntry, size)

\* [ok, dir, entry, exclude_entry]: deletes the old file of that name and returns
\* an empty file at least as large as size
allocate_os8_file(filename, size, dir) ==
    allocate_found(lookup(filename, dir, init_cursor(dir)), size, dir)

entered(e) ==
    IF e.status = "ok" THEN [status |-> "ok", dir |-> consolidate(e.dir)] ELSE e

\* [status, dir]
enter_os8_file(filename, size, dir, entry) == entered(enter(filename, size, dir, entry))

\* Compute size for get_empty_entry
output_size(size) == (size + (OS8_BLOCK_SIZE - 1) * 2) \div (OS8_BLOCK_SIZE * 2)

\* the number of reads fread(block, 2, OS8_BLOCK_SIZE, input) answers with cnt > 0
input_blocks(size) == ((size \div 2) + OS8_BLOCK_SIZE - 1) \div OS8_BLOCK_SIZE

\* the while loop of stream_host_image_file from block_no on; fail_at is the
\* 1-based number of the write_block call that fails (0: none does):
\* [ok, block_no, writes]
RECURSIVE stream_blocks(_, _, _, _, _)
stream_blocks(entry, nblocks, block_no, fail_at, writes) ==
    IF block_no >= nblocks THEN [ok |-> TRUE, block_no |-> block_no, writes |-> writes]
    ELSE IF block_no >= entry.length
    THEN [ok |-> FALSE, block_no |-> block_no, writes |-> writes]
    ELSE IF fail_at = block_no + 1
    THEN [ok |-> FALSE, block_no |-> block_no, writes |-> writes]
    ELSE stream_blocks(entry, nblocks, block_no + 1, fail_at,
                       Append(writes, entry.file_block + block_no))

streamed(a, w, e) ==
    [status |-> e.status, dir |-> e.dir, writes |-> w.writes, entry |-> a.entry,
     exclude_entry |-> a.exclude_entry, block_no |-> w.block_no]

stream_written(a, outputname, w) ==
    IF ~w.ok THEN streamed(a, w, [status |-> "write", dir |-> a.dir])
    ELSE streamed(a, w, enter_os8_file(outputname, w.block_no, a.dir, a.entry))

stream_allocated(a, outputname, size, fail_at) ==
    IF ~a.ok
    THEN streamed(a, [writes |-> <<>>, block_no |-> 0], [status |-> "alloc", dir |-> a.dir])
    ELSE stream_written(a, outputname,
                        stream_blocks(a.entry, input_blocks(size), 0, fail_at, <<>>))

\* [status, dir, writes, entry, exclude_entry, block_no]; status is "ok",
\* "alloc" (allocate_os8_file failed), "write" (the loop returned false),
\* "full" (enter returned false) or "abort" (an assert of enter failed)
stream_host_image_file(dir, outputname, size, fail_at) ==
    stream_allocated(allocate_os8_file(outputname, output_size(size), dir),
                     outputname, size, fail_at)

\* delete_os8_files, lines 1714-1729: entry is the entry under the cursor
delete_step(st, cursor, entry) ==
    IF /\ ~entry.empty_file
       /\ entry.length # 0
       /\ pattern_match_p(entry.name, st.pattern)
       /\ entry.name \notin st.refuse
    THEN [st EXCEPT
             !.dir = delete_entry(st.dir, entry),
             !.cursor = advance_cursor(st.dir, cursor, [entry EXCEPT !.empty_file = TRUE])]
    ELSE [st EXCEPT !.cursor = advance_cursor(st.dir, cursor, entry)]

\* one turn of while (valid_entry(&cursor)) in delete_os8_files
delete_turn(st) ==
    IF ~valid_entry(st.dir, st.cursor).ok THEN [st EXCEPT !.done = TRUE]
    ELSE delete_step(st, valid_entry(st.dir, st.cursor).cursor,
                     peek_entry(st.dir, valid_entry(st.dir, st.cursor).cursor))

RECURSIVE delete_while(_, _)

delete_rest(st, n) == delete_while(st, n)

delete_while(st, n) ==
    IF st.done THEN st
    ELSE IF n = 1 THEN delete_turn(st)
    ELSE delete_rest(delete_while(st, n \div 2), n - (n \div 2))

\* the while loop of delete_os8_files for one argument; refuse holds the names
\* whose "Delete file?" prompt is answered no
delete_loop(dir, cursor, pattern, refuse) ==
    ended(delete_while([dir |-> dir, cursor |-> cursor, pattern |-> pattern,
                        refuse |-> refuse, done |-> FALSE],
                       MaxTurns)).dir

RECURSIVE delete_args(_, _, _, _)
delete_args(dir, argv, i, refuse) ==
    IF i > Len(argv) THEN dir
    ELSE delete_args(delete_loop(dir, init_cursor(dir),
                                 build_pattern(strip_device(argv[i])), refuse),
                     argv, i + 1, refuse)

delete_os8_files(argv, refuse, dir) == consolidate(delete_args(dir, argv, 1, refuse))

\* write_dsk_block and the others refuse a block holding a word with bits in 0170000
block_corrupted(data) == \E k \in 1..OS8_BLOCK_SIZE : data[k] >= PDP8_MOD

RECURSIVE read_segments(_, _, _, _)

read_segment(img, dir, i, fuel) ==
    IF next_segment(dir[i]) > DIR_LENGTH \/ fuel = 0 THEN [ok |-> FALSE, dir |-> dir]
    ELSE IF next_segment(dir[i]) = 0 THEN [ok |-> TRUE, dir |-> dir]
    ELSE read_segments(img, dir, next_segment(dir[i]), fuel - 1)

\* the do-while of read_directory from block_no on: the segments of the chain
\* are read over dir and marked clean; [ok, dir].  fuel bounds the walk (the C
\* loop does not end on a cyclic chain)
read_segments(img, dir, block_no, fuel) ==
    read_segment(img,
                 [dir EXCEPT ![block_no - FIRST_DIR_BLOCK + 1] =
                     [dirty |-> FALSE, data |-> img[block_no]]],
                 block_no - FIRST_DIR_BLOCK + 1, fuel)

read_validated(r) ==
    IF r.ok /\ ~validate_directory(r.dir) THEN [ok |-> FALSE, dir |-> r.dir] ELSE r

read_directory(img, dir) ==
    read_validated(read_segments(img, dir, FIRST_DIR_BLOCK, DIR_LENGTH))

RECURSIVE write_segments(_, _, _, _, _, _)

\* one turn of the do-while of write_directory for segment i
write_segment(dir, img, block_no, i, fail_at, writes, fuel) ==
    IF /\ dir[i].dirty
       /\ \/ next_segment(dir[i]) > DIR_LENGTH
          \/ block_corrupted(dir[i].data)
          \/ fail_at = block_no
    THEN [ok |-> FALSE, dir |-> dir, img |-> img, writes |-> writes]
    ELSE IF next_segment(dir[i]) = 0 \/ fuel = 0
    THEN [ok |-> TRUE,
          dir |-> [dir EXCEPT ![i].dirty = FALSE],
          img |-> IF dir[i].dirty THEN [img EXCEPT ![block_no] = dir[i].data] ELSE img,
          writes |-> IF dir[i].dirty THEN Append(writes, block_no) ELSE writes]
    ELSE write_segments([dir EXCEPT ![i].dirty = FALSE],
                        IF dir[i].dirty THEN [img EXCEPT ![block_no] = dir[i].data]
                        ELSE img,
                        next_segment(dir[i]), fail_at,
                        IF dir[i].dirty THEN Append(writes, block_no) ELSE writes,
                        fuel - 1)

\* the do-while of write_directory from block_no on; fail_at is the block whose
\* write_block call fails in the host (0: none): [ok, dir, img, writes]
write_segments(dir, img, block_no, fail_at, writes, fuel) ==
    write_segment(dir, img, block_no, block_no - FIRST_DIR_BLOCK + 1, fail_at, writes,
                  fuel)

\* a write_directory that takes every segment of the chain for dirty
write_directory_all(dir, img, fail_at) ==
    IF ~validate_directory(dir)
    THEN [ok |-> FALSE, dir |-> dir, img |-> img, writes |-> <<>>]
    ELSE write_segments([i \in 1..DIR_LENGTH |-> [dir[i] EXCEPT !.dirty = TRUE]],
                        img, FIRST_DIR_BLOCK, fail_at, <<>>, 2 * DIR_LENGTH)

write_directory(dir, img, fail_at) ==
    IF ~validate_directory(dir)
    THEN [ok |-> FALSE, dir |-> dir, img |-> img, writes |-> <<>>]
    ELSE write_segments(dir, img, FIRST_DIR_BLOCK, fail_at, <<>>, 2 * DIR_LENGTH)

(***************************************************************************)
(* Images.  create_filesystem gives the fresh directory; the other images  *)
(* are directories laid out as dir_struct_t prescribes.                    *)
(***************************************************************************)
\* get_device for dectape: filesystem_size
filesystem_size == DECTAPE_BLOCKS - FIRST_DIR_BLOCK - DIR_LENGTH

ZeroBlock == [k \in 1..OS8_BLOCK_SIZE |-> 0]

\* the six segments create_filesystem writes
create_filesystem ==
    [i \in 1..DIR_LENGTH |->
        IF i = 1
        THEN WrSeq(ZeroBlock, 0,
                   <<negate(1), DIR_LENGTH + 1, 0, 0, negate(1), 0,
                     negate(filesystem_size)>>)
        ELSE ZeroBlock]

\* the words of a list of entries [name, length], a file with aw additional
\* words; an empty name is an empty entry
RECURSIVE entries_words(_, _)
entries_words(aw, es) ==
    IF Len(es) = 0 THEN <<>>
    ELSE IF Len(es) = 1
    THEN (IF es[1].name = <<>> THEN <<0, negate(es[1].length)>>
          ELSE build_sixbit(es[1].name) \o [i \in 1..aw |-> 0]
               \o <<negate(es[1].length)>>)
    ELSE entries_words(aw, SubSeq(es, 1, Len(es) \div 2))
         \o entries_words(aw, SubSeq(es, (Len(es) \div 2) + 1, Len(es)))

\* a segment in dir_struct_t layout
Segment(aw, es, first, nxt) ==
    WrSeq(ZeroBlock, 0,
          <<negate(Len(es)), first, nxt, 0, negate(aw)>> \o entries_words(aw, es))

F(name, length) == [name |-> name, length |-> length]

E(length) == [name |-> <<>>, length |-> length]

\* "F01", "F02", ...
Fnn(k) == <<70, 48 + (k \div 10), 48 + (k % 10)>>

\* files Fnn for nn in a..b, one block each
Files(a, b) == [k \in 1..(b - a + 1) |-> F(Fnn(a + k - 1), 1)]

NameA == <<65>>

NameB == <<66>>

NameC == <<67>>

NameD == <<68>>

NameE == <<69>>

\* the additional words of the images: one (what create_filesystem sets) and
\* the most validate_directory accepts
OneWord == negate(additional_words([data |-> create_filesystem[1]]))

MostWords == VALID_ADDITIONAL - 1

\* the files of aw additional words after which get_unused_ptr finds a segment
\* that ends in one empty entry full
FullFiles(aw) ==
    (OS8_BLOCK_SIZE - OFF_file_entries - 2 * empty_entry_length - 1)
        \div (NAME_WORDS + 1 + aw)

FirstData == DIR_LENGTH + 1

FreshImage == create_filesystem

\* A, a hole left by a deleted file, C, D
HoleImage ==
    [create_filesystem EXCEPT
        ![1] = Segment(OneWord,
                       <<F(NameA, 2), E(1), F(NameC, 1), F(NameD, 1),
                         E(filesystem_size - 5)>>, FirstData, 0)]

\* one segment that enter finds full, three blocks free at the end
FullImage ==
    [create_filesystem EXCEPT
        ![1] = Segment(MostWords,
                       <<F(NameA, filesystem_size - FullFiles(MostWords) - 2)>>
                       \o Files(2, FullFiles(MostWords)) \o <<E(3)>>, FirstData, 0)]

\* two segments, the first full, the second with room
TwoImage ==
    [create_filesystem EXCEPT
        ![1] = Segment(MostWords,
                       Files(1, FullFiles(MostWords) - 1) \o <<E(3), F(NameA, 1)>>,
                       FirstData, 2),
        ![2] = Segment(MostWords,
                       <<F(NameC, 1), E(filesystem_size - FullFiles(MostWords) - 4)>>,
                       FirstData + FullFiles(MostWords) + 3, 0)]

\* the chain 1 -> 3 -> 2, the last segment full
ChainImage ==
    [create_filesystem EXCEPT
        ![1] = Segment(MostWords, <<F(NameC, 1)>>, FirstData, 3),
        ![3] = Segment(MostWords, <<F(NameD, 1)>>, FirstData + 1, 2),
        ![2] = Segment(MostWords,
                       <<F(NameA, filesystem_size - FullFiles(MostWords) - 4)>>
                       \o Files(2, FullFiles(MostWords)) \o <<E(3)>>,
                       FirstData + 2, 0)]

\* a second segment whose only entry is an empty file of length zero
LoneImage ==
    [create_filesystem EXCEPT
        ![1] = Segment(OneWord, <<F(NameA, 1), E(filesystem_size - 1)>>, FirstData, 2),
        ![2] = Segment(OneWord, <<E(0)>>, FirstData + filesystem_size, 0)]

\* all DIR_LENGTH segments in use, the last one full: no segment can be appended
LastImage ==
    [i \in 1..DIR_LENGTH |->
        IF i < DIR_LENGTH
        THEN Segment(MostWords, Files(20 + i, 20 + i), FirstData + i - 1, i + 1)
        ELSE Segment(MostWords,
                     <<F(NameA, filesystem_size - FullFiles(MostWords) - DIR_LENGTH - 1)>>
                     \o Files(2, FullFiles(MostWords)) \o <<E(3)>>,
                     FirstData + DIR_LENGTH - 1, 0)]

Images ==
    {FreshImage, HoleImage, FullImage, TwoImage, ChainImage, LoneImage, LastImage}

\* what main()'s directory_t holds before read_directory: nothing initialises it
StackWords == {0, 48879}

stack_directory(w) ==
    [i \in 1..DIR_LENGTH |->
        [dirty |-> w # 0, data |-> [k \in 1..OS8_BLOCK_SIZE |-> w]]]

\* host files offered to a copy: name and size in bytes
HostFiles ==
    { [name |-> NameA, size |-> 1024],
      [name |-> NameE, size |-> 0],
      [name |-> NameE, size |-> 512],
      [name |-> NameE, size |-> 1024] }

\* "os8:C", "os8:A", "os8:F*"
DeleteArgs ==
    { <<os8_prefix \o NameC>>,
      <<os8_prefix \o NameA, os8_prefix \o <<70, 42>> >> }

\* the names whose deletion the user refuses at the prompt
Refusals == { {}, {build_sixbit(NameC)} }

\* files on one copy command line
MaxFiles == 3

\* a host file that does not exist
NoFile == [exists |-> FALSE, bytes |-> <<>>]

\* the host side of a command that copies no file contents: no input file, no
\* output file, nothing left to run
NoHost == [input |-> NoFile, name |-> <<>>, output |-> NoFile, script |-> "done"]

\* static int i and static pdp8_word_t w[2] of put_os8_char when the program starts
NoPut == [i |-> 0, w |-> <<0, 0>>]

VARIABLES image, directory, pre, stack, pc, nleft, wlog, last, exit_status, host, put

vars == <<image, directory, pre, stack, pc, nleft, wlog, last, exit_status, host, put>>

NoOp == [op |-> "none"]

Init ==
    /\ image \in Images
    /\ stack \in StackWords
    /\ directory = stack_directory(stack)
    /\ pre = directory
    /\ pc = "none"
    /\ nleft = 0
    /\ wlog = <<>>
    /\ last = NoOp
    /\ exit_status = "none"
    /\ host = NoHost
    /\ put = NoPut

\* main, lines 2138-2141: exit(EXIT_FAILURE) unless the directory was read
ReadDone(cmd, n, r) ==
    /\ directory' = r.dir
    /\ pre' = r.dir
    /\ pc' = IF r.ok THEN cmd ELSE "none"
    /\ exit_status' = IF r.ok THEN "none" ELSE "failure"
    /\ nleft' = IF r.ok /\ cmd = "copy" THEN n ELSE 0

\* main, line 2138: the run starts by reading the directory into main's
\* directory_t; a behaviour is one run of main, one command
ReadDirectory(cmd, n) ==
    /\ pc = "none"
    /\ last = NoOp
    /\ exit_status = "none"
    /\ ReadDone(cmd, n, read_directory(image, stack_directory(stack)))
    /\ wlog' = <<>>
    /\ last' = NoOp
    /\ UNCHANGED <<image, stack, host, put>>

DataWrites(ws) == [k \in 1..Len(ws) |-> [kind |-> "data", block |-> ws[k]]]

DirWrites(ws) == [k \in 1..Len(ws) |-> [kind |-> "dir", block |-> ws[k]]]

\* a copy_host_files whose failure main does not turn into exit(EXIT_FAILURE)
CopyDone_goes_on(f, r) ==
    /\ directory' = r.dir
    /\ wlog' = wlog \o DataWrites(r.writes)
    /\ last' = [op |-> "copy", name |-> f.name, status |-> r.status,
                entry |-> r.entry, exclude_entry |-> r.exclude_entry,
                length |-> r.block_no, before |-> directory]
    /\ nleft' = nleft - 1
    /\ pc' = IF nleft = 1 THEN "commit" ELSE "copy"
    /\ exit_status' = "none"

\* copy_host_files, lines 1682-1689 and main, lines 2169-2171: a failed copy
\* exits before write_directory
CopyDone(f, r) ==
    /\ directory' = r.dir
    /\ wlog' = wlog \o DataWrites(r.writes)
    /\ last' = [op |-> "copy", name |-> f.name, status |-> r.status,
                entry |-> r.entry, exclude_entry |-> r.exclude_entry,
                length |-> r.block_no, before |-> directory]
    /\ nleft' = IF r.status = "ok" THEN nleft - 1 ELSE 0
    /\ pc' = IF r.status # "ok" THEN "none"
             ELSE IF nleft = 1 THEN "commit" ELSE "copy"
    /\ exit_status' = IF r.status = "ok" THEN "none" ELSE "failure"

\* copy_host_files, lines 1651-1690: one source file
CopyHostFile(f, fail_at) ==
    /\ pc = "copy"
    /\ nleft > 0
    /\ CopyDone(f, stream_host_image_file(directory, f.name, f.size, fail_at))
    /\ UNCHANGED <<image, pre, stack, host, put>>

\* main, lines 2147-2151
DeleteFiles(argv, refuse) ==
    /\ pc = "delete"
    /\ directory' = delete_os8_files(argv, refuse, directory)
    /\ last' = [op |-> "delete", argv |-> argv, before |-> directory]
    /\ pc' = "commit"
    /\ UNCHANGED <<image, pre, stack, nleft, wlog, exit_status, host, put>>

CommitDone(fail_at, w) ==
    /\ directory' = w.dir
    /\ image' = w.img
    /\ wlog' = wlog \o DirWrites(w.writes)
    /\ exit_status' = IF w.ok THEN "success" ELSE "failure"
    /\ last' = [op |-> "commit", ok |-> w.ok, before |-> directory,
                fail_at |-> fail_at]

\* main, lines 2188-2190
WriteDirectory(fail_at) ==
    /\ pc = "commit"
    /\ CommitDone(fail_at, write_directory(directory, image, fail_at))
    /\ pc' = "none"
    /\ UNCHANGED <<pre, stack, nleft, host, put>>

Next ==
    \/ \E n \in 1..MaxFiles : ReadDirectory("copy", n)
    \/ ReadDirectory("delete", 0)
    \/ \E f \in HostFiles : \E fail_at \in 0..input_blocks(f.size) :
          CopyHostFile(f, fail_at)
    \/ \E argv \in DeleteArgs : \E refuse \in Refusals : DeleteFiles(argv, refuse)
    \/ \E fail_at \in 0..DIR_LENGTH : WriteDirectory(fail_at)

Spec == Init /\ [][Next]_vars

(***************************************************************************)
(* What the properties read of a directory: the entries the cursor walk    *)
(* meets from segment 1 on, and the chain of segments.                     *)
(***************************************************************************)
item(entry) ==
    [seg |-> entry.dir_block, number |-> entry.file_number,
     file_block |-> entry.file_block, length |-> entry.length,
     empty |-> entry.empty_file, name |-> entry.name]

walk_step(st, g) == [st EXCEPT !.es = Append(@, item(g.entry)), !.cursor = g.cursor]

walk_turn(st) ==
    IF ~valid_entry(st.dir, st.cursor).ok THEN [st EXCEPT !.done = TRUE]
    ELSE walk_step(st, get_entry(st.dir, valid_entry(st.dir, st.cursor).cursor))

RECURSIVE walk_while(_, _)

walk_rest(st, n) == walk_while(st, n)

walk_while(st, n) ==
    IF st.done THEN st
    ELSE IF n = 1 THEN walk_turn(st)
    ELSE walk_rest(walk_while(st, n \div 2), n - (n \div 2))

\* the entries of dir in the order init_cursor, valid_entry and get_entry give
\* them
entries(dir) ==
    walk_while([dir |-> dir, cursor |-> init_cursor(dir), es |-> <<>>, done |-> FALSE],
               MaxTurns).es

\* the segments next_segment leads through from segment i, at most fuel of them
RECURSIVE chain_from(_, _, _)
chain_from(dir, i, fuel) ==
    IF i = 0 \/ i > DIR_LENGTH \/ fuel = 0 THEN <<>>
    ELSE <<i>> \o chain_from(dir, next_segment(dir[i]), fuel - 1)

chain(dir) == chain_from(dir, 1, DIR_LENGTH + 1)

\* the sum of the lengths of es[a..b]
RECURSIVE blocks_of(_, _, _)
blocks_of(es, a, b) ==
    IF a > b THEN 0
    ELSE IF a = b THEN es[a].length
    ELSE blocks_of(es, a, (a + b) \div 2) + blocks_of(es, (a + b) \div 2 + 1, b)

total_blocks(es) == blocks_of(es, 1, Len(es))

\* the entries of es in segment seg
of_segment(es, seg) == SelectSeq(es, LAMBDA e : e.seg = seg)

named(es, name) == SelectSeq(es, LAMBDA e : ~e.empty /\ e.name = name)

\* a copy has entered its file in the directory
Entered == last.op = "copy" /\ last.status = "ok"

\* a delete command has run over the directory
Deleted == last.op = "delete"

Worked == Entered \/ Deleted

MAX(a, b) == IF a > b THEN a ELSE b

\* block b lies in the extent of entry e
inside(b, e) == e.file_block <= b /\ b < e.file_block + e.length

\* the extents of e and f share a block
overlap(e, f) ==
    MAX(e.file_block, f.file_block) < MIN(e.file_block + e.length, f.file_block + f.length)

segments(dir) == { chain(dir)[k] : k \in 1..Len(chain(dir)) }

\* the blocks of the write_block calls of kind ("data" or "dir") of the command,
\* in the order of the calls
logged(kind) == [k \in 1..Len(SelectSeq(wlog, LAMBDA w : w.kind = kind)) |->
                    SelectSeq(wlog, LAMBDA w : w.kind = kind)[k].block]

data_written == { wlog[k].block : k \in { i \in 1..Len(wlog) : wlog[i].kind = "data" } }

\* the image holds the directory the command read
on_disk(dir) == \A i \in segments(dir) : image[i + FIRST_DIR_BLOCK - 1] = dir[i].data

(***************************************************************************)
(* C1.  Block conservation: the lengths of all entries of the directory    *)
(* read sum to the capacity (filesystem_size), and after a copy has        *)
(* entered its file (enter into the entry get_empty_entry gave, then       *)
(* consolidate) or a delete command has run (delete_entry, consolidate)    *)
(* the lengths of all entries of all reachable segments still sum to it.   *)
(***************************************************************************)
C1_BlockConservation ==
    Worked /\ total_blocks(entries(pre)) = filesystem_size
        => total_blocks(entries(directory)) = filesystem_size

monotone(dir, es) ==
    \A n \in segments(dir) :
        next_segment(dir[n]) \in 1..DIR_LENGTH =>
            first_file_block(dir[next_segment(dir[n])]) =
                first_file_block(dir[n]) + total_blocks(of_segment(es, n))

(***************************************************************************)
(* C2.  Monotone layout: after every enter, delete and consolidate, also   *)
(* an enter that appends a segment and moves the last entry of its         *)
(* predecessor there, the first_file_block of the next segment of every    *)
(* reachable segment n is n's first_file_block plus the lengths of n's     *)
(* entries.                                                                *)
(***************************************************************************)
C2_MonotoneLayout ==
    Worked /\ monotone(pre, entries(pre)) => monotone(directory, entries(directory))

no_overlap(es) ==
    \A i, j \in 1..Len(es) :
        i < j /\ ~es[i].empty /\ ~es[j].empty => ~overlap(es[i], es[j])

(***************************************************************************)
(* C3.  No overlap: no two present entries of the directory read overlap,  *)
(* and after every enter, delete and consolidate no two present entries    *)
(* have overlapping intervals [file_block, file_block + length), with      *)
(* file_block as the cursor walk computes it.                              *)
(***************************************************************************)
C3_NoOverlap == Worked /\ no_overlap(entries(pre)) => no_overlap(entries(directory))

\* behind the entry found an empty entry of at least rest blocks follows
\* (consolidate may have merged the rest with an empty entry behind it)
rest_follows(es, found, rest) ==
    rest = 0 \/ \E k \in 1..(Len(es) - 1) :
                   /\ es[k].seg = found.dir_block
                   /\ es[k].number = found.file_number
                   /\ es[k + 1].empty
                   /\ es[k + 1].length >= rest

bound(r, es) ==
    /\ r.ok
    /\ r.entry.length = last.length
    /\ r.entry.file_block = last.entry.file_block
    /\ rest_follows(es, r.entry, last.entry.length - last.length)

(***************************************************************************)
(* C4.  Enter binds the name to the blocks written: after a copy wrote     *)
(* last.length blocks from last.entry.file_block on (last.entry the empty  *)
(* entry allocate_os8_file gave) and entered the name, lookup of the name  *)
(* gives a present entry of that length that starts at that block, and the *)
(* rest of the empty entry follows it; also when enter moved the empty     *)
(* entry to the front of another segment.                                  *)
(***************************************************************************)
C4_EnterBindsWrittenBlocks ==
    Entered => bound(lookup(last.name, directory, init_cursor(directory)),
                     entries(directory))

unreferenced(es) ==
    \A b \in data_written : \A k \in 1..Len(es) : ~es[k].empty => ~inside(b, es[k])

(***************************************************************************)
(* C5.  Unreferenced partial data: when a data-block write fails while a   *)
(* copy streams one of its files, the image still holds the directory the  *)
(* command read and no data block the command wrote lies in the extent of  *)
(* a present file of that directory.                                       *)
(***************************************************************************)
C5_UnreferencedPartialData ==
    last.op = "copy" /\ last.status = "write"
        => on_disk(pre) /\ unreferenced(entries(pre))

\* no write_block call for a data block follows one for a directory segment
data_first == \A i, j \in 1..Len(wlog) : i < j /\ wlog[i].kind = "dir" => wlog[j].kind = "dir"

(***************************************************************************)
(* C6.  Commit comes last: in a copy or delete command no directory        *)
(* segment is written before the last data block is, and when               *)
(* allocate_os8_file, a data-block write or enter fails for a file the     *)
(* command has ended in failure with no directory segment written: the     *)
(* image still holds the directory the command read.                       *)
(***************************************************************************)
C6_CommitComesLast ==
    /\ data_first
    /\ last.op = "copy" /\ last.status # "ok"
          => /\ exit_status = "failure"
             /\ pc = "none"
             /\ logged("dir") = <<>>
             /\ on_disk(pre)

\* a copy that wrote data blocks has been committed: directory segments were
\* written behind them
C6_Witness ==
    /\ last.op = "commit"
    /\ last.ok
    /\ logged("data") # <<>>
    /\ logged("dir") # <<>>
    /\ wlog[Len(wlog)].kind = "dir"

\* the segments of ch that are dirty in dir, in the order of ch
dirty_of(dir, ch) == SelectSeq(ch, LAMBDA i : dir[i].dirty)

block_of(i) == i + FIRST_DIR_BLOCK - 1

\* write_directory returned true: the dirty segments of the chain were written,
\* each to its own block, and no others; the flags are clear
wrote_dirty(before, ch) ==
    /\ logged("dir") = [k \in 1..Len(dirty_of(before, ch)) |->
                           block_of(dirty_of(before, ch)[k])]
    /\ \A i \in segments(before) :
          before[i].dirty => image[block_of(i)] = before[i].data
    /\ \A i \in segments(before) : ~directory[i].dirty

\* write_directory returned false at the k-th segment of the chain: the dirty
\* segments before it were written, it and the later ones keep their flags
kept_dirty(before, ch, k) ==
    /\ logged("dir") = [j \in 1..Len(dirty_of(before, SubSeq(ch, 1, k - 1))) |->
                           block_of(dirty_of(before, SubSeq(ch, 1, k - 1))[j])]
    /\ validate_directory(before) => before[ch[k]].dirty
    /\ \A j \in k..Len(ch) : directory[ch[j]].dirty = before[ch[j]].dirty

(***************************************************************************)
(* C7.  write_directory writes exactly the dirty segments: when it         *)
(* succeeds every segment reachable from segment 1 that was dirty has been *)
(* written to its own block, no clean segment has been written and all     *)
(* reachable segments are clean; when a segment write fails that segment   *)
(* and all later ones keep their dirty flag.                               *)
(***************************************************************************)
C7_WritesExactlyDirty ==
    last.op = "commit" =>
        IF last.ok THEN wrote_dirty(last.before, chain(last.before))
        ELSE \E k \in 1..Len(chain(last.before)) :
                 kept_dirty(last.before, chain(last.before), k)

\* write_directory succeeded on a chain with a dirty and a clean segment
C7_Witness ==
    /\ last.op = "commit"
    /\ last.ok
    /\ \E i, j \in segments(last.before) : last.before[i].dirty /\ ~last.before[j].dirty
    /\ logged("dir") # <<>>

(***************************************************************************)
(* C8.  File-count range: the directory read is one validate_directory     *)
(* accepts, and after every enter, delete and consolidate every reachable  *)
(* segment has negate(number_files) in 1..99: no segment is left with zero *)
(* files.                                                                  *)
(***************************************************************************)
C8_FileCountRange ==
    Worked /\ validate_directory(pre) =>
        \A i \in segments(directory) :
            negate(number_files(directory[i])) \in 1..(VALID_FILES - 1)

\* following next_segment from segment 1 visits no segment twice and ends at 0
well_formed(dir) ==
    /\ Len(chain(dir)) <= DIR_LENGTH
    /\ \A i, j \in 1..Len(chain(dir)) : i < j => chain(dir)[i] # chain(dir)[j]
    /\ \A i \in segments(dir) : next_segment(dir[i]) \in 0..DIR_LENGTH

\* the chain is the one before, or that with one segment appended that was not
\* reachable
grown(before, after) ==
    \/ after = before
    \/ \E s \in 1..DIR_LENGTH :
          /\ \A k \in 1..Len(before) : before[k] # s
          /\ after = Append(before, s)

(***************************************************************************)
(* C9.  Chain well-formedness is preserved: from a directory whose chain   *)
(* is acyclic with every next_segment in 0..6, in any index order, after   *)
(* every enter, also one that appends a segment, the chain visits each     *)
(* segment at most once and ends at 0, and an appended segment is one that *)
(* was not reachable before.                                               *)
(***************************************************************************)
C9_ChainWellFormed ==
    Entered /\ well_formed(last.before) =>
        /\ well_formed(directory)
        /\ grown(chain(last.before), chain(directory))

unique(es) ==
    \A i, j \in 1..Len(es) :
        i < j /\ ~es[i].empty /\ ~es[j].empty => es[i].name # es[j].name

\* the blocks of the entry the copy replaced lie in empty entries
freed(es, old) ==
    old.dir_block = 0 \/
    \A b \in old.file_block..(old.file_block + old.length - 1) :
        \E k \in 1..Len(es) : es[k].empty /\ inside(b, es[k])

replaced(es, name) ==
    /\ Len(named(es, name)) = 1
    /\ named(es, name)[1].length = last.length
    /\ freed(es, last.exclude_entry)
    /\ unique(es)

(***************************************************************************)
(* C10.  Same-name replacement: when the directory holds at most one       *)
(* present entry per name, after a successful copy of a file named X it    *)
(* holds exactly one present entry named X, of the new length, the extent  *)
(* of the entry named X before lies in empty entries, and the names are    *)
(* still unique.                                                           *)
(***************************************************************************)
C10_SameNameReplacement ==
    Entered /\ unique(entries(last.before))
        => replaced(entries(directory), build_sixbit(last.name))

(***************************************************************************)
(* get_empty_entry on its own: a directory, an entry to exclude and a      *)
(* requested length are drawn, and the function is applied.                *)
(***************************************************************************)
\* empty entries of several lengths, one of length zero and two of the same
\* length, in two segments
GapsImage ==
    [create_filesystem EXCEPT
        ![1] = Segment(OneWord,
                       <<F(NameA, 2), E(3), F(NameC, 1), E(1), F(NameD, 1), E(0),
                         F(NameB, 1), E(3), F(Fnn(1), 1), E(2)>>, FirstData, 2),
        ![2] = Segment(OneWord,
                       <<E(1), F(Fnn(2), 1), E(filesystem_size - 17)>>,
                       FirstData + 15, 0)]

EmptyImages == {GapsImage, HoleImage, TwoImage, LoneImage, FreshImage}

\* the longest request drawn
MaxRequest == 5

\* the entry_t of the directory an item stands for, as far as get_empty_entry
\* reads an exclude_entry
as_entry(it) ==
    [ZeroEntry EXCEPT !.empty_file = it.empty, !.name = it.name, !.dir_block = it.seg,
                      !.file_block = it.file_block, !.file_number = it.number,
                      !.length = it.length]

\* exclude_entry = {0}, or an entry of the directory
Excludes(dir) == {ZeroEntry} \cup { as_entry(entries(dir)[k]) : k \in 1..Len(entries(dir)) }

InitEmpty ==
    /\ image \in EmptyImages
    /\ stack = 0
    /\ directory = read_directory(image, stack_directory(stack)).dir
    /\ pre = directory
    /\ pc = "get_empty_entry"
    /\ nleft = 0
    /\ wlog = <<>>
    /\ last = NoOp
    /\ exit_status = "none"
    /\ host = NoHost
    /\ put = NoPut

GetEmptyEntry(exclude_entry, length) ==
    /\ pc = "get_empty_entry"
    /\ last' = [op |-> "get_empty_entry", exclude_entry |-> exclude_entry,
                length |-> length,
                found |-> get_empty_entry(directory, exclude_entry, length)]
    /\ UNCHANGED <<image, directory, pre, stack, pc, nleft, wlog, exit_status, host, put>>

NextEmpty ==
    \E exclude_entry \in Excludes(directory) : \E length \in 0..MaxRequest :
        GetEmptyEntry(exclude_entry, length)

SpecEmpty == InitEmpty /\ [][NextEmpty]_vars

\* it is the entry exclude_entry names
excluded(it, exclude_entry) ==
    it.seg = exclude_entry.dir_block /\ it.number = exclude_entry.file_number

\* the entries of es a request for length may be answered with
candidates(es, exclude_entry, length) ==
    { k \in 1..Len(es) : /\ es[k].empty
                         /\ ~excluded(es[k], exclude_entry)
                         /\ es[k].length # 0
                         /\ es[k].length >= length }

\* found is the best of the candidates: the smallest for a length, the biggest
\* for length zero
selected(es, found, length, cs) ==
    /\ found.ok <=> cs # {}
    /\ found.ok =>
          /\ \E k \in cs : es[k] = item(found.entry)
          /\ \A k \in cs : IF length = 0 THEN es[k].length <= found.entry.length
                           ELSE es[k].length >= found.entry.length

(***************************************************************************)
(* C11.  get_empty_entry selection: for a request L > 0 it returns an      *)
(* empty entry of minimum length among the non-excluded empty entries of   *)
(* length >= L, for L = 0 a non-excluded empty entry of maximum length;    *)
(* what it returns is never the excluded entry (same segment and file      *)
(* number), never a present entry and never an empty entry of length zero, *)
(* and it fails exactly when no non-excluded empty entry of non-zero       *)
(* length >= L exists.                                                     *)
(***************************************************************************)
C11_EmptyEntrySelection ==
    last.op = "get_empty_entry"
        => selected(entries(directory), last.found, last.length,
                    candidates(entries(directory), last.exclude_entry, last.length))

\* the smallest fitting empty entry was the excluded one, and another was found
C11_Witness ==
    /\ last.op = "get_empty_entry"
    /\ last.length > 0
    /\ last.found.ok
    /\ last.exclude_entry.empty_file
    /\ last.exclude_entry.length >= last.length
    /\ last.exclude_entry.length < last.found.entry.length
    /\ Cardinality(candidates(entries(directory), last.exclude_entry, last.length)) > 1

(***************************************************************************)
(* File contents.  The image holds, behind the directory blocks, the data  *)
(* blocks as 256 words each; a host file is its bytes.  A script runs the  *)
(* program twice: host file to image, then the same name back to the host. *)
(***************************************************************************)
\* data blocks the images of the scripts hold
MaxData == 8

\* the image img with MaxData zeroed data blocks behind the directory
with_data(img) ==
    [b \in 1..(DIR_LENGTH + MaxData) |-> IF b <= DIR_LENGTH THEN img[b] ELSE ZeroBlock]

\* byte k of a host file: "words" is a file of 12-bit words, two bytes each,
\* "bytes" one whose 16-bit items have bits above the twelfth
Byte(pattern, k) ==
    IF pattern = "bytes" THEN (k * 37 + 213) % 256
    ELSE IF k % 2 = 1 THEN (k * 37) % 256 ELSE (k \div 2) % 16

HostFile(pattern, size) == [exists |-> TRUE, bytes |-> [k \in 1..size |-> Byte(pattern, k)]]

\* sizes in bytes of the host files copied: none, odd, even, one block, one
\* byte and one word more, two blocks
HostSizes == {0, 1, 2, 3, 512, 513, 514, 1024}

\* element k of the items fread(block, 2, OS8_BLOCK_SIZE, input) reads, little
\* endian
host_word(bytes, k) == bytes[2 * k - 1] + 256 * bytes[2 * k]

\* cnt of the fread for block block_no: the complete two-byte items left
fread_cnt(bytes, block_no) ==
    MIN(OS8_BLOCK_SIZE, (Len(bytes) \div 2) - OS8_BLOCK_SIZE * block_no)

\* block after the fread and the zeroing of the words from cnt on
fread_block(bytes, block_no) ==
    [k \in 1..OS8_BLOCK_SIZE |->
        IF k <= fread_cnt(bytes, block_no)
        THEN host_word(bytes, OS8_BLOCK_SIZE * block_no + k) ELSE 0]

\* the while loop of stream_host_image_file with the words it writes; fail_at
\* is the 1-based number of the write_block call that fails in the host (0:
\* none does): [ok, block_no, img, writes]
RECURSIVE stream_words(_, _, _, _, _, _)
stream_words(entry, bytes, block_no, img, fail_at, writes) ==
    IF ~(fread_cnt(bytes, block_no) > 0)
    THEN [ok |-> TRUE, block_no |-> block_no, img |-> img, writes |-> writes]
    ELSE IF \/ block_no >= entry.length
            \/ block_corrupted(fread_block(bytes, block_no))
            \/ fail_at = block_no + 1
    THEN [ok |-> FALSE, block_no |-> block_no, img |-> img, writes |-> writes]
    ELSE stream_words(entry, bytes, block_no + 1,
                      [img EXCEPT ![entry.file_block + block_no] =
                          fread_block(bytes, block_no)],
                      fail_at, Append(writes, entry.file_block + block_no))

bytes_streamed(a, w, e) ==
    [status |-> e.status, dir |-> e.dir, img |-> w.img, writes |-> w.writes,
     entry |-> a.entry, exclude_entry |-> a.exclude_entry, block_no |-> w.block_no]

bytes_written(a, outputname, w) ==
    IF ~w.ok THEN bytes_streamed(a, w, [status |-> "write", dir |-> a.dir])
    ELSE bytes_streamed(a, w, enter_os8_file(outputname, w.block_no, a.dir, a.entry))

bytes_allocated(a, img, outputname, bytes, fail_at) ==
    IF ~a.ok
    THEN bytes_streamed(a, [img |-> img, writes |-> <<>>, block_no |-> 0],
                        [status |-> "alloc", dir |-> a.dir])
    ELSE bytes_written(a, outputname,
                       stream_words(a.entry, bytes, 0, img, fail_at, <<>>))

\* stream_host_image_file with the contents of input:
\* [status, dir, img, writes, entry, exclude_entry, block_no]
stream_host_image_bytes(dir, img, outputname, bytes, fail_at) ==
    bytes_allocated(allocate_os8_file(outputname, output_size(Len(bytes)), dir),
                    img, outputname, bytes, fail_at)

\* the bytes fwrite(block, 2, OS8_BLOCK_SIZE, output) writes
block_bytes(block) ==
    [k \in 1..(2 * OS8_BLOCK_SIZE) |->
        IF k % 2 = 1 THEN block[(k + 1) \div 2] % 256 ELSE block[k \div 2] \div 256]

\* read_block at the level of words: the block is in the image and no word of
\* it has bits in 0170000
readable(img, block_no) ==
    block_no \in DOMAIN img /\ ~block_corrupted(img[block_no])

\* the for loop of stream_os8_image_file from block_no on: [ok, bytes]
RECURSIVE stream_os8_blocks(_, _, _, _)
stream_os8_blocks(entry, img, block_no, bytes) ==
    IF ~(block_no < entry.file_block + entry.length) THEN [ok |-> TRUE, bytes |-> bytes]
    ELSE IF ~readable(img, block_no) THEN [ok |-> FALSE, bytes |-> bytes]
    ELSE stream_os8_blocks(entry, img, block_no + 1, bytes \o block_bytes(img[block_no]))

stream_os8_image_file(entry, img) == stream_os8_blocks(entry, img, entry.file_block, <<>>)

(***************************************************************************)
(* The text path.  A host text is its characters, 7-bit ASCII; read and       *)
(* written three characters to two words.                                  *)
(***************************************************************************)
\* '\0', '\012', '\015', '\032' and rubout
NUL == 0

LF == 10

CR == 13

CTRL_Z == 26

RUBOUT == 127

\* the mark bit 0200
MARK == 128

\* the characters of the host texts drawn
Alphabet == {NUL, LF, CR, CTRL_Z, 65, RUBOUT}

\* the longest host text drawn
MaxText == 2

Texts == UNION { [1..n -> Alphabet] : n \in 0..MaxText }

\* put_os8_char(t, ch): st is [put, t], the statics and the words of the temp
\* file
put_os8_char(st, ch) ==
    IF st.put.i % 3 = 0
    THEN [st EXCEPT !.put.i = @ + 1, !.put.w[1] = ch]
    ELSE IF st.put.i % 3 = 1
    THEN [st EXCEPT !.put.i = @ + 1, !.put.w[2] = ch]
    ELSE [put |-> [i |-> st.put.i + 1,
                   w |-> <<W16(BitOr(st.put.w[1], BitAnd(ch, 240) * 16)),
                           W16(BitOr(st.put.w[2], BitAnd(ch, 15) * 256))>>],
          t |-> st.t \o <<W16(BitOr(st.put.w[1], BitAnd(ch, 240) * 16)),
                          W16(BitOr(st.put.w[2], BitAnd(ch, 15) * 256))>>]

\* the body of the while loop of stream_host_text_file for character c
put_lf(st, c) == IF c = LF THEN put_os8_char(st, 141) ELSE st

put_marked(st, c) == IF c # NUL THEN put_os8_char(st, BitOr(c, MARK)) ELSE st

put_text_char(st, c) == put_marked(put_lf(st, c), c)

\* the while loop from character k on; seen is ctrl_z_seen: [st, seen]
RECURSIVE put_text(_, _, _, _)
put_text(st, bytes, k, seen) ==
    IF k > Len(bytes) \/ seen THEN [st |-> st, seen |-> seen]
    ELSE put_text(put_text_char(st, bytes[k]), bytes, k + 1, bytes[k] = CTRL_Z)

\* lines 1468-1475: the ^Z OS/8 wants and the flush of the partial output
put_end(r) ==
    put_os8_char(put_os8_char(IF ~r.seen THEN put_os8_char(r.st, 154) ELSE r.st, 0), 0)

\* the temp file of stream_host_text_file and the statics it leaves: [put, t];
\* seen is what the uninitialised ctrl_z_seen holds at line 1456
temp_file(bytes, put0, seen) ==
    put_end(put_text([put |-> put0, t |-> <<>>], bytes, 1, seen))

\* the bytes of the words fwrite(w, sizeof(pdp8_word_t), 2, t) wrote
temp_bytes(t) ==
    [k \in 1..(2 * Len(t)) |->
        IF k % 2 = 1 THEN t[(k + 1) \div 2] % 256 ELSE t[k \div 2] \div 256]

\* character j (from 0) of a block as stream_os8_text_file unpacks it
unpacked(block, j) ==
    IF j % 3 = 0 THEN block[2 * (j \div 3) + 1] % 128
    ELSE IF j % 3 = 1 THEN block[2 * (j \div 3) + 2] % 128
    ELSE BitOr(BitAnd(block[2 * (j \div 3) + 1] \div 16, 112),
               block[2 * (j \div 3) + 2] \div 256)

CHARS_PER_BLOCK == 3 * (OS8_BLOCK_SIZE \div 2)

\* the characters of the first n blocks of the extent of entry, unpacked
text_chars(entry, img, n) ==
    [j \in 1..(CHARS_PER_BLOCK * n) |->
        unpacked(img[entry.file_block + ((j - 1) \div CHARS_PER_BLOCK)],
                 (j - 1) % CHARS_PER_BLOCK)]

\* the first blocks of the extent read_block reads; lookup gives no entry of
\* length zero
RECURSIVE readable_run(_, _, _)
readable_run(entry, img, n) ==
    IF n >= entry.length \/ ~readable(img, entry.file_block + n) THEN n
    ELSE readable_run(entry, img, n + 1)

ctrl_z_at(cs) == { j \in 1..Len(cs) : cs[j] = CTRL_Z }

first_of(S) == CHOOSE j \in S : \A i \in S : j <= i

\* the characters putc writes: all but rubouts, carriage returns, nulls and ^Z
put_chars(cs) ==
    SelectSeq(cs, LAMBDA ch : ch # RUBOUT /\ ch # CR /\ ch # NUL /\ ch # CTRL_Z)

\* eof_p becomes true at the first ^Z or behind the last block of the extent;
\* a block that cannot be read before that ends the copy with false
text_read(cs, all_read) ==
    IF ctrl_z_at(cs) # {}
    THEN [ok |-> TRUE, bytes |-> put_chars(SubSeq(cs, 1, first_of(ctrl_z_at(cs))))]
    ELSE [ok |-> all_read, bytes |-> put_chars(cs)]

text_of(entry, img, n) == text_read(text_chars(entry, img, n), n >= entry.length)

\* [ok, bytes]
stream_os8_text_file(entry, img) == text_of(entry, img, readable_run(entry, img, 0))

\* the extensions filename_type takes for text
text_extensions ==
    { <<98, 97>>, <<98, 105>>, <<102, 99>>, <<102, 116>>, <<104, 101>>, <<104, 108>>,
      <<108, 115>>, <<109, 97>>, <<112, 97>>, <<112, 115>>, <<114, 97>>, <<114, 111>>,
      <<115, 98>>, <<115, 108>>, <<116, 101>>, <<116, 120>> }

\* filename_type(filename) == text_type, for a name with at most one dot
text_type_p(filename) ==
    \E k \in 1..Len(filename) :
        /\ filename[k] = CH_DOT
        /\ [i \in 1..(Len(filename) - k) |-> tolower(filename[k + i])] \in text_extensions

\* lines 1610-1614
stream_os8_file(text_p, entry, img) ==
    IF text_p THEN stream_os8_text_file(entry, img) ELSE stream_os8_image_file(entry, img)

copied_out(s) == [ok |-> s.ok, output |-> [exists |-> TRUE, bytes |-> s.bytes]]

RECURSIVE copy_os8_matches(_, _, _, _, _, _, _)

copy_os8_match(l, filename, dir, img, output, is_dir_p, fuel) ==
    IF ~l.ok \/ fuel = 0 THEN [ok |-> TRUE, output |-> output]
    ELSE IF is_dir_p THEN [ok |-> FALSE, output |-> output]
    ELSE IF ~stream_os8_file(text_type_p(filename), l.entry, img).ok
    THEN copied_out(stream_os8_file(text_type_p(filename), l.entry, img))
    ELSE copy_os8_matches(filename, dir, img, l.cursor,
                          copied_out(stream_os8_file(text_type_p(filename), l.entry,
                                                     img)).output,
                          is_dir_p, fuel - 1)

\* the while (lookup(...)) of copy_os8_files for one image file name and one
\* host path that is no directory; is_dir_p is what line 1597 reads, and the
\* name given stands for the name of the entry found, which it matches:
\* [ok, output]
copy_os8_matches(filename, dir, img, cursor, output, is_dir_p, fuel) ==
    copy_os8_match(lookup(filename, dir, cursor), filename, dir, img, output, is_dir_p,
                   fuel)

\* is_dir_p is set only when the host path can be opened (lines 1564-1570)
DirFlags(output) == IF output.exists THEN {FALSE} ELSE BOOLEAN

copy_os8_files(filename, dir, img, output, is_dir_p) ==
    copy_os8_matches(filename, dir, img, init_cursor(dir), output, is_dir_p, MaxTurns)

BinaryImages == {with_data(FreshImage), with_data(HoleImage)}

\* the host file the script copies and the path it copies it back to, which
\* may exist
BinaryHosts ==
    { [input |-> HostFile(pattern, size), name |-> name, output |-> output,
       script |-> "copy_to"] :
          pattern \in {"words", "bytes"}, size \in HostSizes, name \in {NameA, NameE},
          output \in {NoFile, HostFile("bytes", 1)} }

InitBinary ==
    /\ image \in BinaryImages
    /\ stack \in StackWords
    /\ directory = stack_directory(stack)
    /\ pre = directory
    /\ pc = "none"
    /\ nleft = 0
    /\ wlog = <<>>
    /\ last = NoOp
    /\ exit_status = "none"
    /\ host \in BinaryHosts
    /\ put = NoPut

\* the first command of the script: host file to "os8:"
ReadForCopyTo ==
    /\ host.script = "copy_to"
    /\ ReadDirectory("copy", 1)

\* the second command of the script: "os8:" file to the host path
ReadForCopyFrom ==
    /\ host.script = "copy_from"
    /\ ReadDirectory("copy_from", 0)

CopyBytesDone(fail_at, r) ==
    /\ directory' = r.dir
    /\ image' = r.img
    /\ wlog' = wlog \o DataWrites(r.writes)
    /\ last' = [op |-> "copy", name |-> host.name, status |-> r.status,
                entry |-> r.entry, exclude_entry |-> r.exclude_entry,
                length |-> r.block_no, before |-> directory, fail_at |-> fail_at]
    /\ nleft' = 0
    /\ pc' = IF r.status = "ok" THEN "commit" ELSE "none"
    /\ exit_status' = IF r.status = "ok" THEN "none" ELSE "failure"

\* copy_host_files for the one host file of the script, with its contents
CopyHostBytes(fail_at) ==
    /\ pc = "copy"
    /\ host.script = "copy_to"
    /\ ~text_type_p(host.name)
    /\ CopyBytesDone(fail_at,
                     stream_host_image_bytes(directory, image, host.name,
                                             host.input.bytes, fail_at))
    /\ UNCHANGED <<pre, stack, host, put>>

CopiedFrom(is_dir_p, r) ==
    /\ host' = [host EXCEPT !.output = r.output]
    /\ last' = [op |-> "copy_from", name |-> host.name, ok |-> r.ok,
                is_dir_p |-> is_dir_p]
    /\ pc' = IF r.ok THEN "commit" ELSE "none"
    /\ exit_status' = IF r.ok THEN "none" ELSE "failure"

\* main, lines 2173-2177: copy_os8_files for the one name of the script
CopyOs8Files(is_dir_p) ==
    /\ pc = "copy_from"
    /\ CopiedFrom(is_dir_p,
                  copy_os8_files(os8_prefix \o host.name, directory, image, host.output,
                                 is_dir_p))
    /\ UNCHANGED <<image, directory, pre, stack, nleft, wlog, put>>

\* the script goes on to its second command after the first ended with
\* EXIT_SUCCESS: a new process, whose memory holds nothing of the first
NewRun ==
    /\ pc = "none"
    /\ exit_status = "success"
    /\ host.script = "copy_to"
    /\ host' = [host EXCEPT !.script = "copy_from"]
    /\ directory' = stack_directory(stack)
    /\ pre' = stack_directory(stack)
    /\ wlog' = <<>>
    /\ last' = NoOp
    /\ exit_status' = "none"
    /\ put' = NoPut
    /\ UNCHANGED <<image, stack, pc, nleft>>

NextBinary ==
    \/ ReadForCopyTo
    \/ \E fail_at \in 0..2 : CopyHostBytes(fail_at)
    \/ \E fail_at \in 0..DIR_LENGTH : WriteDirectory(fail_at)
    \/ NewRun
    \/ ReadForCopyFrom
    \/ \E is_dir_p \in DirFlags(host.output) : CopyOs8Files(is_dir_p)

SpecBinary == InitBinary /\ [][NextBinary]_vars

\* the blocks N bytes take
blocks_for(N) == (N + 2 * OS8_BLOCK_SIZE - 1) \div (2 * OS8_BLOCK_SIZE)

\* file holds the bytes of H, filled up to whole blocks
holds(file, H) ==
    /\ file.exists
    /\ Len(file.bytes) = blocks_for(Len(H)) * 2 * OS8_BLOCK_SIZE
    /\ SubSeq(file.bytes, 1, Len(H)) = H

(***************************************************************************)
(* C12.  Binary copy round trip: for every host file H of N bytes (N >= 0, *)
(* odd N and N = 1 mod 512 too) the copy to the image, when no write of    *)
(* the host fails, enters the file with ceil(N/512) blocks, and the copy   *)
(* of the same name from the image that follows yields a host file of      *)
(* ceil(N/512)*512 bytes whose first N bytes are H.                        *)
(***************************************************************************)
C12_BinaryRoundTrip ==
    /\ last.op = "copy" /\ last.fail_at = 0
          => /\ last.status = "ok"
             /\ last.length = blocks_for(Len(host.input.bytes))
             /\ Len(named(entries(directory), build_sixbit(last.name))) = 1
             /\ named(entries(directory), build_sixbit(last.name))[1].length
                    = blocks_for(Len(host.input.bytes))
    /\ last.op = "copy_from" => last.ok /\ holds(host.output, host.input.bytes)

(***************************************************************************)
(* The script for text: one or two text files are copied to a fresh image  *)
(* in one command, and the last of them is copied back to the host.        *)
(***************************************************************************)
\* "H.TX" and "P.TX"
NameH == <<72, 46, 84, 88>>

NameP == <<80, 46, 84, 88>>

\* the text files a command may copy before the one of the script: they leave
\* put_os8_char at the second and at the third character of a group
Before ==
    { <<>>, <<[name |-> NameP, bytes |-> <<65>>]>>,
      <<[name |-> NameP, bytes |-> <<65, 65>>]>> }

TextHosts ==
    { [files |-> before \o <<[name |-> NameH, bytes |-> text]>>,
       input |-> [exists |-> TRUE, bytes |-> text], name |-> NameH,
       output |-> NoFile, script |-> "copy_to"] :
          before \in Before, text \in Texts }

InitText ==
    /\ image = with_data(FreshImage)
    /\ stack = 0
    /\ directory = stack_directory(stack)
    /\ pre = directory
    /\ pc = "none"
    /\ nleft = 0
    /\ wlog = <<>>
    /\ last = NoOp
    /\ exit_status = "none"
    /\ host \in TextHosts
    /\ put = NoPut

ReadForCopyText ==
    /\ host.script = "copy_to"
    /\ ReadDirectory("copy", Len(host.files))

CopyTextDone(f, seen, fail_at, tf, r) ==
    /\ directory' = r.dir
    /\ image' = r.img
    /\ put' = tf.put
    /\ wlog' = wlog \o DataWrites(r.writes)
    /\ last' = [op |-> "copy", name |-> f.name, status |-> r.status,
                entry |-> r.entry, exclude_entry |-> r.exclude_entry,
                length |-> r.block_no, before |-> directory, fail_at |-> fail_at,
                text |-> f.bytes, packed |-> tf.t, seen |-> seen]
    /\ nleft' = IF r.status = "ok" THEN nleft - 1 ELSE 0
    /\ pc' = IF r.status # "ok" THEN "none"
             ELSE IF nleft = 1 THEN "commit" ELSE "copy"
    /\ exit_status' = IF r.status = "ok" THEN "none" ELSE "failure"

\* lines 1480-1488: the temp file goes through stream_host_image_file
CopyTextTemp(f, seen, fail_at, tf) ==
    CopyTextDone(f, seen, fail_at, tf,
                 stream_host_image_bytes(directory, image, f.name, temp_bytes(tf.t),
                                         fail_at))

\* copy_host_files, lines 1651-1690, for a text file: stream_host_text_file;
\* seen is what ctrl_z_seen holds when line 1456 first reads it
CopyHostText(seen, fail_at) ==
    /\ pc = "copy"
    /\ nleft > 0
    /\ text_type_p(host.files[Len(host.files) - nleft + 1].name)
    /\ CopyTextTemp(host.files[Len(host.files) - nleft + 1], seen, fail_at,
                    temp_file(host.files[Len(host.files) - nleft + 1].bytes, put, seen))
    /\ UNCHANGED <<pre, stack, host>>

NextText ==
    \/ ReadForCopyText
    \/ \E seen \in BOOLEAN : \E fail_at \in 0..1 : CopyHostText(seen, fail_at)
    \/ \E fail_at \in 0..1 : WriteDirectory(fail_at)
    \/ NewRun
    \/ ReadForCopyFrom
    \/ \E is_dir_p \in DirFlags(host.output) : CopyOs8Files(is_dir_p)

SpecText == InitText /\ [][NextText]_vars

\* H has LF-only line endings and no ^Z
plain(H) == \A k \in 1..Len(H) : H[k] # CR /\ H[k] # CTRL_Z

(***************************************************************************)
(* C13.  Text copy round trip: for every host text H with LF-only line     *)
(* endings and no control-Z, the copy of H to the image by the text path   *)
(* (stream_host_text_file), when no write of the host fails, enters the    *)
(* file, and the copy back by stream_os8_text_file yields exactly H.       *)
(***************************************************************************)
C13_TextRoundTrip ==
    /\ last.op = "copy" /\ last.fail_at = 0 /\ plain(last.text) => last.status = "ok"
    /\ last.op = "copy_from" /\ plain(host.input.bytes)
          => /\ last.ok
             /\ host.output.exists
             /\ host.output.bytes = host.input.bytes

\* the characters of H up to and including the first ^Z
to_ctrl_z(H) == IF ctrl_z_at(H) = {} THEN H ELSE SubSeq(H, 1, first_of(ctrl_z_at(H)))

\* nulls dropped, 0x8D before every line feed, the mark bit on every character
RECURSIVE marked(_)
marked(H) ==
    IF Len(H) = 0 THEN <<>>
    ELSE (IF H[1] = NUL THEN <<>>
          ELSE IF H[1] = LF THEN <<141, LF + MARK>>
          ELSE <<(H[1] % MARK) + MARK>>) \o marked(Tail(H))

\* the character stream the rules give for H, the last group of three filled
\* with zeros
stream_of(H) == marked(to_ctrl_z(H)) \o (IF ctrl_z_at(H) = {} THEN <<154>> ELSE <<>>)

filled(cs) == cs \o [k \in 1..((3 - (Len(cs) % 3)) % 3) |-> 0]

\* the three characters a pair of words of the temp file holds
group_of(w0, w1) == <<w0 % 256, w1 % 256, 16 * (w0 \div 256) + (w1 \div 256)>>

RECURSIVE packed_chars(_)
packed_chars(t) ==
    IF Len(t) < 2 THEN <<>>
    ELSE group_of(t[1], t[2]) \o packed_chars(Tail(Tail(t)))

(***************************************************************************)
(* C14.  Text packing rules: the character stream stream_host_text_file    *)
(* packs for a host file is the characters of the file up to and including *)
(* the first control-Z, with nulls dropped, a 0x8D before every 0x0A (also *)
(* behind a carriage return), the mark bit 0x80 on every character and a   *)
(* final 0x9A exactly when the file held no control-Z; the last group of   *)
(* three characters is filled with zeros.                                  *)
(***************************************************************************)
C14_TextPackingRules ==
    last.op = "copy" /\ "packed" \in DOMAIN last
        => packed_chars(last.packed) = filled(stream_of(last.text))

(***************************************************************************)
(* The block readers and writers, at the level of the bytes of the image   *)
(* file.  The file is its length and the bytes written so far over what it *)
(* held before: chunks is a function from the offset of a write to the     *)
(* bytes it wrote, no two chunks overlapping, and fill names the contents  *)
(* of every offset that was not written.                                   *)
(***************************************************************************)
DECTAPE_BLOCK_SIZE == 258

DECTAPE_LENGTH == 380292

OS8_DECTAPE_LENGTH == 377344

RK05_BLOCK_SIZE == 384

RK05_RKB_OFFSET == 3248

\* the byte the file holds at offset o where nothing was written: a file of
\* zeroes, or one whose 16-bit items have bits above the twelfth
filled_with(fill, o) == IF fill = "zero" THEN 0 ELSE (o * 37 + 213) % 256

\* the offset after the last byte of the chunk written at offset lo
chunk_end(file, lo) == lo + Len(file.chunks[lo])

\* the offsets of the chunks that hold offset o: none or one
chunks_at(file, o) == {lo \in DOMAIN file.chunks : lo <= o /\ o < chunk_end(file, lo)}

byte_at(file, o) ==
    IF chunks_at(file, o) = {} THEN filled_with(file.fill, o)
    ELSE LET lo == CHOOSE lo \in chunks_at(file, o) : TRUE
         IN  file.chunks[lo][o - lo + 1]

\* what is left of the chunk at lo, and where, once offset..(end - 1) is
\* written over: the part before offset and the part from end on
chunk_left(file, lo, offset, end) ==
    (IF lo < offset
     THEN {<<lo, SubSeq(file.chunks[lo], 1, IF chunk_end(file, lo) < offset
                                              THEN Len(file.chunks[lo]) ELSE offset - lo)>>}
     ELSE {})
    \cup
    (IF chunk_end(file, lo) > end
     THEN IF lo >= end THEN {<<lo, file.chunks[lo]>>}
          ELSE {<<end, SubSeq(file.chunks[lo], end - lo + 1, Len(file.chunks[lo]))>>}
     ELSE {})

\* pwrite(os8_file, byte_buffer, count, offset): byte_buffer is a sequence
pwrite(file, byte_buffer, count, offset) ==
    LET kept == UNION {chunk_left(file, lo, offset, offset + count) : lo \in DOMAIN file.chunks}
               \cup {<<offset, SubSeq(byte_buffer, 1, count)>>}
    IN  [file EXCEPT
            !.chunks = [lo \in {c[1] : c \in kept} |->
                           (CHOOSE c \in kept : c[1] = lo)[2]],
            !.size = IF offset + count > file.size THEN offset + count ELSE file.size]

\* the chunks that hold all of offset..(offset + count - 1): none or one
chunks_over(file, count, offset) ==
    {lo \in DOMAIN file.chunks : lo <= offset /\ offset + count <= chunk_end(file, lo)}

\* count bytes from offset on, all of them in the file
bytes_from(file, count, offset) ==
    IF chunks_over(file, count, offset) = {}
    THEN [k \in 1..count |-> byte_at(file, offset + k - 1)]
    ELSE LET lo == CHOOSE lo \in chunks_over(file, count, offset) : TRUE
         IN  SubSeq(file.chunks[lo], offset - lo + 1, offset - lo + count)

\* pread(os8_file, byte_buffer, count, offset): the bytes read, fewer than
\* count at the end of the file
pread(file, count, offset) ==
    bytes_from(file,
               IF offset + count <= file.size THEN count
               ELSE IF offset < file.size THEN file.size - offset ELSE 0,
               offset)

\* (word & 0170000) != 0 of a 16-bit word
corrupted(word) == word \div 4096 # 0

\* the index of the first word of block_buffer a writer refuses, 0 if none
first_corrupted(block_buffer) ==
    IF \A k \in 1..Len(block_buffer) : ~corrupted(block_buffer[k]) THEN 0
    ELSE CHOOSE k \in 1..Len(block_buffer) :
            /\ corrupted(block_buffer[k])
            /\ \A j \in 1..(k - 1) : ~corrupted(block_buffer[j])

\* *byte_ptr++ = *word_ptr & 0377; *byte_ptr++ = *word_ptr++ >> 8; for the
\* words first..(first + count - 1): the second is a store to an unsigned char
two_bytes_per_word(block_buffer, first, count) ==
    [k \in 1..(2 * count) |->
        IF k % 2 = 1 THEN block_buffer[first + (k - 1) \div 2] % 256
        ELSE (block_buffer[first + (k - 1) \div 2] \div 256) % 256]

\* the word byte_buffer_to_word_buffer makes of bytes 2k-1 and 2k
word_of_bytes(byte_buffer, k) == byte_buffer[2 * k - 1] + byte_buffer[2 * k] * 256

\* byte_buffer_to_word_buffer: [ok, block]; when a word has bits in 0170000
\* the conversion stops there and the rest of block_buffer is not filled
byte_buffer_to_word_buffer(byte_buffer) ==
    LET words == [k \in 1..OS8_BLOCK_SIZE |-> word_of_bytes(byte_buffer, k)]
        bad == first_corrupted(words)
    IN  IF bad = 0 THEN [ok |-> TRUE, block |-> words]
        ELSE [ok |-> FALSE, block |-> SubSeq(words, 1, bad)]

\* write_dsk_block: [ok, file]
write_dsk_block(file, block_no, block_buffer) ==
    IF first_corrupted(block_buffer) # 0 THEN [ok |-> FALSE, file |-> file]
    ELSE [ok |-> TRUE,
          file |-> pwrite(file, two_bytes_per_word(block_buffer, 1, OS8_BLOCK_SIZE),
                          OS8_BLOCK_SIZE * 2, block_no * OS8_BLOCK_SIZE * 2)]

\* one half of write_dectape_block: 128 words and the extra word, zero
dectape_half(block_buffer, first) ==
    two_bytes_per_word(block_buffer, first, OS8_BLOCK_SIZE \div 2) \o <<0, 0>>

\* write_dectape_block: [ok, file]; a word refused in the second half leaves
\* the first half written
write_dectape_block(file, block_no, block_buffer) ==
    LET bad == first_corrupted(block_buffer)
        byte_offset == block_no * DECTAPE_BLOCK_SIZE * 2
        first_half == pwrite(file, dectape_half(block_buffer, 1),
                             DECTAPE_BLOCK_SIZE, byte_offset)
    IN  IF bad # 0 /\ bad <= OS8_BLOCK_SIZE \div 2 THEN [ok |-> FALSE, file |-> file]
        ELSE IF bad # 0 THEN [ok |-> FALSE, file |-> first_half]
        ELSE [ok |-> TRUE,
              file |-> pwrite(first_half,
                              dectape_half(block_buffer, OS8_BLOCK_SIZE \div 2 + 1),
                              DECTAPE_BLOCK_SIZE, byte_offset + DECTAPE_BLOCK_SIZE)]

\* the packing with the middle byte made of the low bits of both words
three_bytes_low_nibble(block_buffer) ==
    [k \in 1..RK05_BLOCK_SIZE |->
        LET w1 == block_buffer[2 * ((k - 1) \div 3) + 1]
            w2 == block_buffer[2 * ((k - 1) \div 3) + 2]
        IN  CASE k % 3 = 1 -> (w1 \div 16) % 256
              [] k % 3 = 2 -> ((w1 % 16) * 16 + (w2 % 16)) % 256
              [] OTHER -> w2 % 256]

\* byte k of the three write_rka_block makes of each two words, each a store
\* to an unsigned char
three_bytes_per_two_words(block_buffer) ==
    [k \in 1..RK05_BLOCK_SIZE |->
        LET w1 == block_buffer[2 * ((k - 1) \div 3) + 1]
            w2 == block_buffer[2 * ((k - 1) \div 3) + 2]
        IN  CASE k % 3 = 1 -> (w1 \div 16) % 256
              [] k % 3 = 2 -> ((w1 % 16) * 16 + w2 \div 256) % 256
              [] OTHER -> w2 % 256]

\* write_rka_block: [ok, file]
write_rka_block(file, block_no, block_buffer) ==
    IF first_corrupted(block_buffer) # 0 THEN [ok |-> FALSE, file |-> file]
    ELSE [ok |-> TRUE,
          file |-> pwrite(file, three_bytes_per_two_words(block_buffer),
                          RK05_BLOCK_SIZE, block_no * RK05_BLOCK_SIZE)]

write_rkb_block(file, block_no, block_buffer) ==
    write_rka_block(file, block_no + RK05_RKB_OFFSET, block_buffer)

\* a read that got fewer bytes than it asked for
short_read == [ok |-> FALSE, block |-> <<>>]

\* read_dsk_block: [ok, block]
read_dsk_block(file, block_no) ==
    LET byte_buffer == pread(file, OS8_BLOCK_SIZE * 2, block_no * OS8_BLOCK_SIZE * 2)
    IN  IF Len(byte_buffer) # OS8_BLOCK_SIZE * 2 THEN short_read
        ELSE byte_buffer_to_word_buffer(byte_buffer)

\* read_dectape_block: [ok, block]; the extra word of each half is not read
read_dectape_block(file, block_no) ==
    LET byte_offset == block_no * DECTAPE_BLOCK_SIZE * 2
        first_half == pread(file, OS8_BLOCK_SIZE, byte_offset)
        second_half == pread(file, OS8_BLOCK_SIZE, byte_offset + DECTAPE_BLOCK_SIZE)
    IN  IF Len(first_half) # OS8_BLOCK_SIZE \/ Len(second_half) # OS8_BLOCK_SIZE
        THEN short_read
        ELSE byte_buffer_to_word_buffer(first_half \o second_half)

\* the words read_rka_block makes of three bytes: word k of the block
word_of_three(byte_buffer, k) ==
    LET c1 == byte_buffer[3 * ((k - 1) \div 2) + 1]
        c2 == byte_buffer[3 * ((k - 1) \div 2) + 2]
        c3 == byte_buffer[3 * ((k - 1) \div 2) + 3]
    IN  IF k % 2 = 1 THEN c1 * 16 + c2 \div 16 ELSE (c2 % 16) * 256 + c3

\* read_rka_block: [ok, block]
read_rka_block(file, block_no) ==
    LET byte_buffer == pread(file, RK05_BLOCK_SIZE, block_no * RK05_BLOCK_SIZE)
    IN  IF Len(byte_buffer) # RK05_BLOCK_SIZE THEN short_read
        ELSE [ok |-> TRUE,
              block |-> [k \in 1..OS8_BLOCK_SIZE |-> word_of_three(byte_buffer, k)]]

read_rkb_block(file, block_no) == read_rka_block(file, block_no + RK05_RKB_OFFSET)

\* main, lines 2112-2135: the reader and the writer of each packing
Packings == {"dsk", "dectape", "rka", "rkb"}

write_block(packing, file, block_no, block_buffer) ==
    CASE packing = "dsk" -> write_dsk_block(file, block_no, block_buffer)
      [] packing = "dectape" -> write_dectape_block(file, block_no, block_buffer)
      [] packing = "rka" -> write_rka_block(file, block_no, block_buffer)
      [] OTHER -> write_rkb_block(file, block_no, block_buffer)

read_block(packing, file, block_no) ==
    CASE packing = "dsk" -> read_dsk_block(file, block_no)
      [] packing = "dectape" -> read_dectape_block(file, block_no)
      [] packing = "rka" -> read_rka_block(file, block_no)
      [] OTHER -> read_rkb_block(file, block_no)

(***************************************************************************)
(* Writing blocks to an image file of each packing.  The file starts as    *)
(* long as the device and is written one block at a time; pre is the file  *)
(* before the last write.                                                  *)
(***************************************************************************)
\* the blocks written and read: neighbours, so that an offset that is off by
\* a block or by a part of one shows
CodecBlocks == {0, 1}

\* the length of the file of each packing: main lines 2099-2106 for the two
\* DECtape lengths, both halves of the pack for an RK05
device_length(packing) ==
    CASE packing = "dsk" -> OS8_DECTAPE_LENGTH
      [] packing = "dectape" -> DECTAPE_LENGTH
      [] OTHER -> 2 * RK05_RKB_OFFSET * RK05_BLOCK_SIZE

\* the buffers handed to the writers: every bit of the twelve set, words that
\* differ in every nibble, and a buffer with a 13-bit word in its second half
BlockPatterns == {"ones", "mixed", "wide"}

block_buffer_of(pattern) ==
    [k \in 1..OS8_BLOCK_SIZE |->
        CASE pattern = "ones" -> 4095
          [] pattern = "wide" /\ k = 200 -> 4096 + k
          [] OTHER -> (k * 1031 + 7) % 4096]

InitCodec ==
    /\ image \in {[packing |-> p,
                   file |-> [size |-> device_length(p), fill |-> f,
                            chunks |-> <<>>]] :
                     p \in Packings, f \in {"zero", "items"}}
    /\ pre = image.file
    /\ last = NoOp
    /\ pc = "write_block"
    /\ directory = <<>>
    /\ stack = 0
    /\ nleft = 0
    /\ wlog = <<>>
    /\ exit_status = "none"
    /\ host = NoHost
    /\ put = NoPut

\* write_block(os8_file, block_no, block_buffer)
WriteBlock(block_no, pattern) ==
    /\ pc = "write_block"
    /\ LET r == write_block(image.packing, image.file, block_no, block_buffer_of(pattern))
       IN  /\ image' = [image EXCEPT !.file = r.file]
           /\ pre' = image.file
           /\ last' = [op |-> "write_block", block_no |-> block_no,
                       pattern |-> pattern, ok |-> r.ok]
    /\ UNCHANGED <<directory, stack, pc, nleft, wlog, exit_status, host, put>>

NextCodec == \E block_no \in CodecBlocks, pattern \in BlockPatterns : WriteBlock(block_no, pattern)

SpecCodec == InitCodec /\ [][NextCodec]_vars

\* C15: for each packing, after a block of 256 words all in 0..4095 is
\* written at block n, reading block n returns exactly those words, and
\* reading any other block m returns what it returned before the write
C15_CodecRoundTrip ==
    last.op = "write_block" /\ first_corrupted(block_buffer_of(last.pattern)) = 0
        => /\ last.ok
           /\ read_block(image.packing, image.file, last.block_no)
                 = [ok |-> TRUE, block |-> block_buffer_of(last.pattern)]
           /\ \A m \in CodecBlocks \ {last.block_no} :
                 read_block(image.packing, image.file, m)
                     = read_block(image.packing, pre, m)

\* a block written over other words, in front of a block that was written
\* before
C15_Witness ==
    /\ last.op = "write_block" /\ last.ok /\ last.block_no = 0
    /\ image.packing = "rkb"
    /\ read_block(image.packing, pre, 0).ok
    /\ read_block(image.packing, pre, 0).block # block_buffer_of(last.pattern)
    /\ read_block(image.packing, pre, 1).block = block_buffer_of("ones")

(***************************************************************************)
(* Create and zero.  A run is main with --create or --zero on an image of  *)
(* one of the formats main accepts; host holds the command line.           *)
(***************************************************************************)
\* what a device_t on the stack holds before get_device: nothing initialises
\* it; zeroes, the numbers of a DECtape, and any other numbers
StackDevices ==
    { [last_block_no |-> 0, filesystem_size |-> 0, size |-> 0],
      [last_block_no |-> DECTAPE_BLOCKS - 1,
       filesystem_size |-> DECTAPE_BLOCKS - FIRST_DIR_BLOCK - DIR_LENGTH,
       size |-> DECTAPE_BLOCKS],
      [last_block_no |-> 9, filesystem_size |-> 3366, size |-> 3366] }

\* get_device with the first block of the data area left out of the count
get_device_less(format, device) ==
    CASE format = "dectape" ->
            [ok |-> TRUE, last_block_no |-> DECTAPE_BLOCKS - 1,
             filesystem_size |-> DECTAPE_BLOCKS - FIRST_DIR_BLOCK - DIR_LENGTH - 1,
             size |-> DECTAPE_BLOCKS - 1]
      [] format = "rk05" ->
            [ok |-> TRUE, last_block_no |-> RK05_RKB_OFFSET - 1,
             filesystem_size |-> RK05_RKB_OFFSET - FIRST_DIR_BLOCK - DIR_LENGTH - 1,
             size |-> RK05_RKB_OFFSET - 1]
      [] OTHER ->
            [ok |-> FALSE, last_block_no |-> device.last_block_no,
             filesystem_size |-> device.filesystem_size, size |-> device.size]

\* get_device: [ok, last_block_no, filesystem_size, size]; device is what the
\* caller's device_t held before, which the default case leaves as it is
get_device(format, device) ==
    CASE format = "dectape" ->
            [ok |-> TRUE, last_block_no |-> DECTAPE_BLOCKS - 1,
             filesystem_size |-> DECTAPE_BLOCKS - FIRST_DIR_BLOCK - DIR_LENGTH,
             size |-> (DECTAPE_BLOCKS - 1) + 1]
      [] format = "rk05" ->
            [ok |-> TRUE, last_block_no |-> RK05_RKB_OFFSET - 1,
             filesystem_size |-> RK05_RKB_OFFSET - FIRST_DIR_BLOCK - DIR_LENGTH,
             size |-> (RK05_RKB_OFFSET - 1) + 1]
      [] OTHER ->
            [ok |-> FALSE, last_block_no |-> device.last_block_no,
             filesystem_size |-> device.filesystem_size, size |-> device.size]

\* the pdp8_word_t a negate(x) of an unsigned x is stored as
negated_word(x) == W16(negate(W16(x)))

\* zero_filesystem: the return value of get_device is not looked at
zero_filesystem(dir, format, device) ==
    [dir EXCEPT
        ![1] = [dirty |-> TRUE,
                data |-> WrSeq(dir[1].data, 0,
                               <<negate(1), first_file_block(dir[1]), 0, 0,
                                 additional_words(dir[1]), 0,
                                 negated_word(get_device(format, device).size
                                              - first_file_block(dir[1]))>>)]]

\* lines 1212-1226 of create_filesystem: the directory it makes
created_directory(format, device) ==
    [i \in 1..DIR_LENGTH |->
        [dirty |-> FALSE,
         data |-> IF i = 1
                  THEN WrSeq(ZeroBlock, 0,
                             <<negate(1), DIR_LENGTH + 1, 0, 0, negate(1), 0,
                               negated_word(get_device(format, device).filesystem_size)>>)
                  ELSE ZeroBlock]]

\* the blocks create_filesystem writes, in the order it writes them: block 0,
\* the DIR_LENGTH segments, the last block of the device
created_blocks(dir, last_block_no) ==
    <<[block_no |-> 0, data |-> dir[2].data]>>
    \o [i \in 1..DIR_LENGTH |-> [block_no |-> i - 1 + FIRST_DIR_BLOCK, data |-> dir[i].data]]
    \o <<[block_no |-> last_block_no, data |-> dir[2].data]>>

\* the image with the first n of the blocks ws written
blocks_written(img, ws, n) ==
    [b \in DOMAIN img \cup {ws[k].block_no : k \in 1..n} |->
        IF \E k \in 1..n : ws[k].block_no = b
        THEN ws[CHOOSE k \in 1..n :
                    ws[k].block_no = b /\ \A j \in (k + 1)..n : ws[j].block_no # b].data
        ELSE img[b]]

\* create_filesystem: [ok, dir, img, writes]; fail_at is the write_block call
\* that fails in the host (0: none)
create_filesystem_on(img, format, device, fail_at) ==
    LET dir == created_directory(format, device)
        ws == created_blocks(dir, get_device(format, device).last_block_no)
        n == IF fail_at = 0 THEN Len(ws) ELSE fail_at - 1
    IN  IF ~validate_directory(dir)
        THEN [ok |-> FALSE, dir |-> dir, img |-> img, writes |-> <<>>]
        ELSE [ok |-> fail_at = 0, dir |-> dir, img |-> blocks_written(img, ws, n),
              writes |-> [k \in 1..n |-> ws[k].block_no]]

\* main, lines 2085-2106: a DECtape file of OS8_DECTAPE_LENGTH bytes that is
\* not being created is a dsk
device_format(format, o_creat, st_size) ==
    IF ~o_creat /\ format = "dectape" /\ st_size = OS8_DECTAPE_LENGTH THEN "dsk"
    ELSE format

\* the blocks get_device counts for the image of a format main accepts
device_blocks(format) == IF format = "rk05" THEN RK05_RKB_OFFSET ELSE DECTAPE_BLOCKS

\* the first block of the data area of a system image
SystemData == FirstData + 49

\* the directory blocks of the images that are zeroed or created over, blocks
\* data blocks behind the directory: a fresh one, one with files and a hole,
\* and a system image of two segments
FormatImages(blocks) ==
    { [create_filesystem EXCEPT ![1] = Segment(OneWord, <<E(blocks)>>, FirstData, 0)],
      [create_filesystem EXCEPT
          ![1] = Segment(OneWord,
                         <<F(NameA, 2), E(1), F(NameC, 1), E(blocks - 4)>>, FirstData, 0)],
      [create_filesystem EXCEPT
          ![1] = Segment(MostWords, <<F(NameA, 1), E(3)>>, SystemData, 2),
          ![2] = Segment(MostWords,
                         <<F(NameC, 1), E(blocks - (SystemData - FirstData) - 5)>>,
                         SystemData + 4, 0)] }

\* the command lines: --zero or --create, with or without --exists, on a
\* DECtape file of either length, a dsk file or an RK05 file of either half
CommandLines ==
    { [command |-> c, exists_p |-> e, packing |-> p,
       format |-> device_format(IF p \in {"rka", "rkb"} THEN "rk05" ELSE d.format,
                                ~e /\ c = "create", d.st_size)] :
        c \in {"zero", "create"}, e \in BOOLEAN, p \in Packings,
        d \in { [format |-> "dectape", st_size |-> DECTAPE_LENGTH],
                [format |-> "dectape", st_size |-> OS8_DECTAPE_LENGTH],
                [format |-> "dsk", st_size |-> OS8_DECTAPE_LENGTH] } }

\* main, lines 1938-1941, 2099-2135: --exists goes with --create only, and
\* the format picks the reader and the writer
command_line_p(cl) ==
    /\ cl.exists_p => cl.command = "create"
    /\ cl.packing = (IF cl.format = "rk05" THEN cl.packing ELSE cl.format)

InitFormat ==
    /\ host \in {cl \in CommandLines : command_line_p(cl)}
    /\ image \in IF host.command = "create" /\ ~host.exists_p THEN {<<>>}
                 ELSE FormatImages(device_blocks(host.format) - FirstData)
    /\ stack \in StackWords
    /\ directory = stack_directory(stack)
    /\ pre = directory
    /\ pc = "main"
    /\ nleft = 0
    /\ wlog = <<>>
    /\ last = NoOp
    /\ exit_status = "none"
    /\ put = NoPut

\* main, lines 2138-2141, for --zero
ReadForZero ==
    /\ pc = "main"
    /\ host.command = "zero"
    /\ ReadDone("zero", 0, read_directory(image, directory))
    /\ UNCHANGED <<image, stack, wlog, last, host, put>>

\* main, lines 2152-2159: sure is the answer to "Are you sure? ", device what
\* the device_t of zero_filesystem holds before get_device
ZeroFilesystem(sure, device) ==
    /\ pc = "zero"
    /\ directory' = IF sure THEN zero_filesystem(directory, host.format, device)
                    ELSE directory
    /\ last' = [op |-> "zero", sure |-> sure, before |-> directory]
    /\ pc' = "commit"
    /\ UNCHANGED <<image, pre, stack, nleft, wlog, exit_status, host, put>>

CreateDone(sure, called, r) ==
    /\ directory' = r.dir
    /\ image' = r.img
    /\ wlog' = wlog \o DataWrites(r.writes)
    /\ last' = [op |-> "create", sure |-> sure, called |-> called, ok |-> r.ok]
    /\ pc' = IF r.ok THEN "commit" ELSE "none"
    /\ exit_status' = IF r.ok THEN "none" ELSE "failure"

\* main, lines 2160-2167: create_filesystem is called with --exists only, and
\* nothing reads the directory before
CreateFilesystem(sure, device, fail_at) ==
    /\ pc = "main"
    /\ host.command = "create"
    /\ CreateDone(sure, host.exists_p /\ sure,
                  IF host.exists_p /\ sure
                  THEN create_filesystem_on(image, host.format, device, fail_at)
                  ELSE [ok |-> TRUE, dir |-> directory, img |-> image, writes |-> <<>>])
    /\ UNCHANGED <<pre, stack, nleft, host, put>>

NextFormat ==
    \/ ReadForZero
    \/ \E sure \in BOOLEAN, device \in StackDevices : ZeroFilesystem(sure, device)
    \/ \E sure \in BOOLEAN, device \in StackDevices :
          \E fail_at \in 0..(DIR_LENGTH + 2) : CreateFilesystem(sure, device, fail_at)
    \/ \E fail_at \in 0..DIR_LENGTH : WriteDirectory(fail_at)

SpecFormat == InitFormat /\ [][NextFormat]_vars

\* the header of segment 1 and the one entry a created or zeroed directory
\* has: an empty entry of the given length at first_file_block
emptied(dir, first, aw, length) ==
    /\ number_files(dir[1]) = negate(1)
    /\ first_file_block(dir[1]) = first
    /\ next_segment(dir[1]) = 0
    /\ flag_word(dir[1]) = 0
    /\ additional_words(dir[1]) = aw
    /\ chain(dir) = <<1>>
    /\ Len(entries(dir)) = 1
    /\ entries(dir)[1].empty
    /\ entries(dir)[1].length = length
    /\ entries(dir)[1].file_block = first

\* segments 2..DIR_LENGTH hold nothing but zeroes
rest_zero(dir) == \A i \in 2..DIR_LENGTH : dir[i].data = ZeroBlock

\* C16 as the specification states it: create_filesystem on a DECtape image
\* gives one segment with number_files = -1, first_file_block = 7,
\* next_segment = 0, flag_word = 0, additional_words = -1 and a single empty
\* entry of length 1467, a device of 1474 blocks less the 7 before the data
\* area; segments 2..6 are all zero
C16_CreateDectape1467 ==
    last.op = "create" /\ last.called /\ host.format = "dectape"
        => /\ emptied(directory, DIR_LENGTH + 1, negate(1), 1474 - (DIR_LENGTH + 1))
           /\ rest_zero(directory)

\* C16: create_filesystem for the dectape format, the DECtape image of 129-word
\* blocks, gives one segment with number_files = -1, first_file_block = 7,
\* next_segment = 0, flag_word = 0, additional_words = -1 and a single empty
\* entry of length 730, the DECTAPE_BLOCKS = 737 blocks of 256 words of the
\* device less the 7 before the data area; segments 2..6 are all zero
C16_CreateDectape ==
    last.op = "create" /\ last.called /\ host.format = "dectape"
        => /\ emptied(directory, DIR_LENGTH + 1, negate(1),
                      DECTAPE_BLOCKS - (DIR_LENGTH + 1))
           /\ rest_zero(directory)

\* create_filesystem has run over an image that held files in two segments
C16_Witness ==
    /\ last.op = "create" /\ last.called /\ last.ok /\ host.format = "dectape"
    /\ stack # 0
    /\ image[1] = directory[1].data
    /\ image[2] = ZeroBlock
    /\ DECTAPE_BLOCKS - 1 \in DOMAIN image

\* C17: after zero_filesystem on an image of any format the program accepts,
\* segment 1 has number_files = -1, next_segment = 0, flag_word = 0, its
\* first_file_block and additional_words as before, and exactly one entry, an
\* empty entry as long as the blocks of the device less first_file_block;
\* segment 1 is dirty and segments 2..6 are as before
C17_ZeroResult ==
    last.op = "zero" /\ last.sure
        => /\ emptied(directory, first_file_block(last.before[1]),
                      additional_words(last.before[1]),
                      device_blocks(host.format) - first_file_block(last.before[1]))
           /\ directory[1].dirty
           /\ \A i \in 2..DIR_LENGTH : directory[i] = last.before[i]

(***************************************************************************)
(* Copies in a row into a fresh image.  Each run of main copies some host  *)
(* files of one block and writes the directory; the files are named in the *)
(* order they are copied.  host counts the files: committed are in the     *)
(* directory on the image, copied are those and the ones of this run.      *)
(***************************************************************************)
\* host files copied in a row
MaxCopies == 4

\* sizes in bytes of host files that take one block of 512 bytes
OneBlockSizes == {1, OS8_BLOCK_SIZE, 2 * OS8_BLOCK_SIZE}

InitSequence ==
    /\ image = FreshImage
    /\ stack \in StackWords
    /\ directory = stack_directory(stack)
    /\ pre = directory
    /\ pc = "none"
    /\ nleft = 0
    /\ wlog = <<>>
    /\ last = NoOp
    /\ exit_status = "none"
    /\ host = [committed |-> 0, copied |-> 0]
    /\ put = NoPut

\* a run of main that copies n host files: main, lines 2138-2141
ReadForCopies(n) ==
    /\ pc = "none"
    /\ host.committed + n <= MaxCopies
    /\ ReadDone("copy", n, read_directory(image, stack_directory(stack)))
    /\ wlog' = <<>>
    /\ last' = NoOp
    /\ host' = [host EXCEPT !.copied = host.committed]
    /\ UNCHANGED <<image, stack, put>>

CopyNextDone(f, r) ==
    /\ CopyDone(f, r)
    /\ host' = [host EXCEPT !.copied = IF r.status = "ok" THEN @ + 1 ELSE @]

\* copy_host_files, lines 1651-1690, for the next file of the row
CopyNextFile(size, fail_at) ==
    /\ pc = "copy"
    /\ nleft > 0
    /\ CopyNextDone([name |-> Fnn(host.copied + 1), size |-> size],
                    stream_host_image_file(directory, Fnn(host.copied + 1), size, fail_at))
    /\ UNCHANGED <<image, pre, stack, put>>

CommitCopiesDone(fail_at, w) ==
    /\ CommitDone(fail_at, w)
    /\ host' = [host EXCEPT !.committed = IF w.ok THEN host.copied ELSE @]

\* main, lines 2188-2190
CommitCopies(fail_at) ==
    /\ pc = "commit"
    /\ CommitCopiesDone(fail_at, write_directory(directory, image, fail_at))
    /\ pc' = "none"
    /\ UNCHANGED <<pre, stack, nleft, put>>

NextSequence ==
    \/ \E n \in 1..MaxFiles : ReadForCopies(n)
    \/ \E size \in OneBlockSizes : \E fail_at \in 0..1 : CopyNextFile(size, fail_at)
    \/ \E fail_at \in 0..1 : CommitCopies(fail_at)

SpecSequence == InitSequence /\ [][NextSequence]_vars

\* es is k files of one block in the order of their names, on consecutive
\* blocks from first on, and then one empty entry with the rest of total
in_a_row(es, k, first, total) ==
    /\ Len(es) = k + 1
    /\ \A i \in 1..MIN(k, Len(es)) :
          /\ ~es[i].empty
          /\ es[i].name = build_sixbit(Fnn(i))
          /\ es[i].length = 1
          /\ es[i].file_block = first + i - 1
    /\ es[Len(es)].empty
    /\ es[Len(es)].length = total - k

\* C18: after k distinctly named host files of one block each were copied one
\* after another into a freshly created image, the directory holds exactly k
\* present entries in copy order, each of length 1, on consecutive blocks from
\* first_file_block of segment 1 on, and then exactly one empty entry with all
\* the remaining data blocks
C18_SequentialCopies ==
    last.op = "copy" /\ last.status = "ok"
        => in_a_row(entries(directory), host.copied,
                    first_file_block(directory[1]), filesystem_size)

(***************************************************************************)
(* Deleting from a directory of one segment that holds the one-block files *)
(* A, B, C, D, E, F and one empty entry behind them.                       *)
(***************************************************************************)
NameF == <<70>>

SixNames == <<NameA, NameB, NameC, NameD, NameE, NameF>>

SixFiles == [k \in 1..Len(SixNames) |-> F(SixNames[k], 1)]

\* the lengths of the empty entry behind the files: all the other blocks of
\* the device, or a few
TrailingLengths == {filesystem_size - Len(SixNames), 3}

SixImages ==
    { [create_filesystem EXCEPT ![1] = Segment(aw, SixFiles \o <<E(T)>>, FirstData, 0)] :
        aw \in {OneWord, MostWords}, T \in TrailingLengths }

\* "os8:C", "C.*", "os8:c", "os8:A", "os8:C" and "os8:F"
SixArgs ==
    { <<os8_prefix \o NameC>>,
      <<NameC \o <<CH_DOT, CH_STAR>> >>,
      <<os8_prefix \o <<tolower(NameC[1])>> >>,
      <<os8_prefix \o NameA>>,
      <<os8_prefix \o NameC, os8_prefix \o NameF>> }

InitDelete ==
    /\ image \in SixImages
    /\ stack \in StackWords
    /\ directory = stack_directory(stack)
    /\ pre = directory
    /\ pc = "none"
    /\ nleft = 0
    /\ wlog = <<>>
    /\ last = NoOp
    /\ exit_status = "none"
    /\ host = NoHost
    /\ put = NoPut

\* main, lines 2147-2151; refuse holds the names whose prompt is answered no
DeleteNamed(argv, refuse) ==
    /\ pc = "delete"
    /\ directory' = delete_os8_files(argv, refuse, directory)
    /\ last' = [op |-> "delete", argv |-> argv, refuse |-> refuse, before |-> directory]
    /\ pc' = "commit"
    /\ UNCHANGED <<image, pre, stack, nleft, wlog, exit_status, host, put>>

NextDelete ==
    \/ ReadDirectory("delete", 0)
    \/ \E argv \in SixArgs : \E refuse \in Refusals : DeleteNamed(argv, refuse)
    \/ \E fail_at \in 0..1 : WriteDirectory(fail_at)

SpecDelete == InitDelete /\ [][NextDelete]_vars

\* the names and lengths of the entries es, an empty entry with the name <<>>
listing(es) ==
    [k \in 1..Len(es) |->
        IF es[k].empty THEN E(es[k].length)
        ELSE [name |-> es[k].name, length |-> es[k].length]]

sixbit_file(name, length) == [name |-> build_sixbit(name), length |-> length]

\* the last entry of the directory before the delete: the trailing empty entry
trailing(es) == es[Len(es)].length

\* C alone is deleted: the one argument names it and the prompt is not refused
deleted_C ==
    /\ last.op = "delete"
    /\ Len(last.argv) = 1
    /\ \A k \in 1..Len(SixNames) :
          pattern_match_p(build_sixbit(SixNames[k]),
                          build_pattern(strip_device(last.argv[1])))
              <=> SixNames[k] = NameC
    /\ last.refuse = {}

\* C19 as the specification states it: deleting C from A, B, C, D, E, F and a
\* trailing empty entry of length T yields A, B, D, E, F followed by one
\* single empty entry of length T+1, with no other empty entry
C19_DeleteCompacts ==
    deleted_C
        => listing(entries(directory))
              = <<sixbit_file(NameA, 1), sixbit_file(NameB, 1), sixbit_file(NameD, 1),
                  sixbit_file(NameE, 1), sixbit_file(NameF, 1),
                  E(trailing(entries(last.before)) + 1)>>

\* C19: deleting C (with its consolidation) from a single-segment directory
\* holding the one-block files A, B, C, D, E, F in that order and one trailing
\* empty entry of length T yields A, B, an empty entry of length 1 on the block
\* C had, D, E, F and the trailing empty entry of length T: the two empty
\* entries are not adjacent and are not merged, and no file moves
C19_DeleteInTheMiddle ==
    deleted_C
        => /\ listing(entries(directory))
                 = <<sixbit_file(NameA, 1), sixbit_file(NameB, 1), E(1),
                     sixbit_file(NameD, 1), sixbit_file(NameE, 1), sixbit_file(NameF, 1),
                     E(trailing(entries(last.before)))>>
           /\ \A k \in 1..Len(entries(directory)) :
                 entries(directory)[k].file_block = entries(last.before)[k].file_block

C19_Witness ==
    /\ deleted_C
    /\ Len(named(entries(last.before), build_sixbit(NameC))) = 1
    /\ Len(named(entries(directory), build_sixbit(NameC))) = 0
    /\ trailing(entries(last.before)) = filesystem_size - Len(SixNames)

(***************************************************************************)
(* Copies into directories whose segments are full, in chains of every     *)
(* shape read_directory accepts.                                           *)
(***************************************************************************)
\* the chain 1 -> 6: the last segment full, the slots 2..5 not in the chain
SkipImage ==
    [create_filesystem EXCEPT
        ![1] = Segment(MostWords, <<F(NameC, 1)>>, FirstData, DIR_LENGTH),
        ![DIR_LENGTH] =
            Segment(MostWords,
                    <<F(NameA, filesystem_size - FullFiles(MostWords) - 3)>>
                    \o Files(2, FullFiles(MostWords)) \o <<E(3)>>,
                    FirstData + 1, 0)]

EnterImages == {HoleImage, FullImage, TwoImage, ChainImage, LastImage, SkipImage}

InitEnter ==
    /\ image \in EnterImages
    /\ stack \in StackWords
    /\ directory = stack_directory(stack)
    /\ pre = directory
    /\ pc = "none"
    /\ nleft = 0
    /\ wlog = <<>>
    /\ last = NoOp
    /\ exit_status = "none"
    /\ host = NoHost
    /\ put = NoPut

\* a is what allocate_os8_file returned: a.dir is the directory enter is
\* called with, a.entry the empty entry
EnterDone(f, a, r) ==
    /\ CopyDone(f, r)
    /\ host' = [host EXCEPT !.input = [exists |-> TRUE, bytes |-> <<>>],
                            !.name = f.name,
                            !.output = [exists |-> FALSE, dir |-> a.dir]]

\* copy_host_files, lines 1651-1690: one source file; host.output.dir keeps
\* the directory as allocate_os8_file left it
EnterHostFile(f, fail_at) ==
    /\ pc = "copy"
    /\ nleft > 0
    /\ EnterDone(f, allocate_os8_file(f.name, output_size(f.size), directory),
                 stream_host_image_file(directory, f.name, f.size, fail_at))
    /\ UNCHANGED <<image, pre, stack, put>>

NextEnter ==
    \/ \E n \in 1..MaxFiles : ReadDirectory("copy", n)
    \/ \E f \in HostFiles : \E fail_at \in 0..input_blocks(f.size) :
          EnterHostFile(f, fail_at)
    \/ \E fail_at \in 0..DIR_LENGTH : WriteDirectory(fail_at)

SpecEnter == InitEnter /\ [][NextEnter]_vars

\* segment seg of dir has room for an entry like those of segment of and the
\* two words enter keeps free
has_room(dir, seg, of) ==
    get_unused_ptr(dir, seg, file_entry_length(dir[of]) + empty_entry_length) # -1

\* no segment of the chain has room and every slot is in the chain
truly_full(dir, of) ==
    /\ \A seg \in segments(dir) : ~has_room(dir, seg, of)
    /\ segments(dir) = 1..DIR_LENGTH

\* enter was called: the empty entry was found and the blocks were written
enter_called == last.op = "copy" /\ last.status \in {"ok", "full", "abort"}

\* C20: enter returns failure only when no reachable segment has room for the
\* new entry plus the two-word reserve and all six segment slots are already
\* in the chain; whenever some reachable segment has room or an unused
\* segment slot remains, enter succeeds
C20_FullOnlyWhenFull ==
    enter_called /\ ~truly_full(host.output.dir, last.entry.dir_block)
        => last.status = "ok"

(***************************************************************************)
(* Wildcard expansion.  copy_os8_files initialises a cursor and calls      *)
(* lookup with the same file name until it returns false; nothing changes  *)
(* the directory in between.  host holds the name and the cursor, last the *)
(* entries lookup has returned so far.                                     *)
(***************************************************************************)
\* files F01..F04, of which F02 has length zero, among empty entries, one of
\* them of length zero, in the chain 1 -> 3
MatchImage ==
    [create_filesystem EXCEPT
        ![1] = Segment(OneWord,
                       <<F(Fnn(1), 1), E(2), F(NameA, 1), F(Fnn(2), 0), E(0),
                         F(Fnn(3), 2)>>, FirstData, 3),
        ![3] = Segment(OneWord,
                       <<E(1), F(Fnn(4), 1), F(NameF, 0), F(NameF \o <<CH_DOT>> \o NameA, 1),
                         E(filesystem_size - 9)>>, FirstData + 6, 0)]

LookupImages == {MatchImage, HoleImage, TwoImage, ChainImage, FreshImage}

\* "os8:F*", "*.*", "os8:A", "F.A", "F03" and "os8:*.A"
LookupNames ==
    { os8_prefix \o <<70, CH_STAR>>,
      <<CH_STAR, CH_DOT, CH_STAR>>,
      os8_prefix \o NameA,
      NameF \o <<CH_DOT>> \o NameA,
      Fnn(3),
      os8_prefix \o <<CH_STAR, CH_DOT>> \o NameA }

InitLookup ==
    /\ image \in LookupImages
    /\ stack = 0
    /\ directory = read_directory(image, stack_directory(stack)).dir
    /\ pre = directory
    /\ pc = "lookup"
    /\ nleft = 0
    /\ wlog = <<>>
    /\ last = [op |-> "init_cursor", ok |-> TRUE, found |-> <<>>]
    /\ exit_status = "none"
    /\ \E filename \in LookupNames :
          host = [filename |-> filename, cursor |-> init_cursor(directory)]
    /\ put = NoPut

\* while (lookup(argv[i], directory, &cursor, &entry)): one call
LookupNext ==
    /\ pc = "lookup"
    /\ LET r == lookup(host.filename, directory, host.cursor)
       IN /\ host' = [host EXCEPT !.cursor = r.cursor]
          /\ last' = [op |-> "lookup", ok |-> r.ok,
                      found |-> IF r.ok THEN Append(last.found, item(r.entry))
                                ELSE last.found]
          /\ pc' = IF r.ok THEN "lookup" ELSE "done"
    /\ UNCHANGED <<image, directory, pre, stack, nleft, wlog, exit_status, put>>

NextLookup == LookupNext

SpecLookup == InitLookup /\ [][NextLookup]_vars

\* the present entries of es of non-zero length whose name the pattern of
\* filename matches, in the order of es
matching(es, filename) ==
    SelectSeq(es, LAMBDA e : /\ ~e.empty
                             /\ e.length # 0
                             /\ pattern_match_p(e.name,
                                                build_pattern(strip_device(filename))))

(***************************************************************************)
(* C21.  Wildcard expansion by lookup: from a freshly initialised cursor,  *)
(* repeated calls of lookup with the same pattern and no mutation in       *)
(* between return every present entry of non-zero length whose name        *)
(* matches the pattern exactly once, in directory (chain) order, never an  *)
(* empty entry or an entry of length zero, and then return false.          *)
(***************************************************************************)
C21_WildcardExpansion ==
    /\ Len(last.found) <= Len(matching(entries(directory), host.filename))
    /\ last.found = SubSeq(matching(entries(directory), host.filename), 1, Len(last.found))
    /\ last.op = "lookup" => (last.ok <=> pc = "lookup")
    /\ pc = "done" => last.found = matching(entries(directory), host.filename)

\* lookup has returned false after three matches in two segments, having
\* passed a matching file of length zero and empty entries
C21_Witness ==
    /\ pc = "done"
    /\ Len(last.found) = 3
    /\ last.found[1].seg # last.found[3].seg
    /\ \E k \in 1..Len(entries(directory)) :
          /\ ~entries(directory)[k].empty
          /\ entries(directory)[k].length = 0
          /\ pattern_match_p(entries(directory)[k].name,
                             build_pattern(strip_device(host.filename)))

(***************************************************************************)
(* read_directory on its own: an image whose directory has the chain       *)
(* 1 -> 2 is drawn with one header word of one segment replaced, and       *)
(* read_directory is applied to it.                                        *)
(***************************************************************************)
\* 01377, the last word below the flag words, and 02000, the first above
BelowFlags == FLAG_BASE - 1

AboveFlags == FLAG_MAX + 1

\* the header words drawn for a segment, by offset in dir_struct_t
HeaderWords(offset) ==
    IF offset = OFF_number_files
    THEN {0, negate(1), negate(VALID_FILES - 1), negate(VALID_FILES)}
    ELSE IF offset = OFF_next_segment
    THEN {0, 3, DIR_LENGTH, DIR_LENGTH + 1, PDP8_MOD - 1}
    ELSE IF offset = OFF_flag_word
    THEN {0, 5, BelowFlags, FLAG_BASE, FLAG_MAX, AboveFlags}
    ELSE {0, negate(1), negate(VALID_ADDITIONAL - 1), negate(VALID_ADDITIONAL)}

HeaderOffsets == {OFF_number_files, OFF_next_segment, OFF_flag_word, OFF_additional_words}

\* no word drawn closes the chain into a cycle
HeaderImages ==
    UNION { { [TwoImage EXCEPT ![1] = Wr(@, OFF_flag_word, f1), ![s] = Wr(@, offset, w)] :
                f1 \in {0, FLAG_BASE}, s \in 1..2, w \in HeaderWords(offset) } :
            offset \in HeaderOffsets }

InitHeader ==
    /\ image \in HeaderImages
    /\ stack \in StackWords
    /\ directory = stack_directory(stack)
    /\ pre = directory
    /\ pc = "main"
    /\ nleft = 0
    /\ wlog = <<>>
    /\ last = NoOp
    /\ exit_status = "none"
    /\ host = NoHost
    /\ put = NoPut

\* if (!read_directory(read_block, os8_file, directory)) exit(EXIT_FAILURE);
ReadHeaders ==
    /\ pc = "main"
    /\ directory' = read_directory(image, directory).dir
    /\ last' = [op |-> "read_directory", ok |-> read_directory(image, directory).ok]
    /\ pc' = IF read_directory(image, directory).ok THEN "read" ELSE "exit"
    /\ exit_status' = IF read_directory(image, directory).ok THEN exit_status
                      ELSE "failure"
    /\ UNCHANGED <<image, pre, stack, nleft, wlog, host, put>>

NextHeader == ReadHeaders

SpecHeader == InitHeader /\ [][NextHeader]_vars

\* the directory blocks of img as a directory_t
on_image(img) == [i \in 1..DIR_LENGTH |-> [dirty |-> FALSE, data |-> img[FIRST_DIR_BLOCK + i - 1]]]

\* a header the sanity checks of the directory do not allow
invalid_segment(blk) ==
    \/ next_segment(blk) > DIR_LENGTH
    \/ negate(number_files(blk)) \notin 1..(VALID_FILES - 1)
    \/ negate(additional_words(blk)) \notin 0..(VALID_ADDITIONAL - 1)
    \/ flag_word(blk) # 0 /\ flag_word(blk) \notin FLAG_BASE..FLAG_MAX

(***************************************************************************)
(* C22.  Invalid directories are rejected on read: read_directory fails    *)
(* whenever any segment reachable from segment 1 has next_segment > 6, a   *)
(* file count negate(number_files) outside 1..99, negate(additional_words) *)
(* outside 0..9, or a flag_word that is neither 0 nor within 01400..01777, *)
(* for every reachable segment and not only for segment 1.                 *)
(***************************************************************************)
C22_InvalidRejected ==
    /\ last.op = "read_directory"
    /\ \E s \in segments(on_image(image)) : invalid_segment(on_image(image)[s])
    => ~last.ok

(***************************************************************************)
(* The loops of read_directory, validate_directory and of a cursor walk,   *)
(* one turn a step.  host holds block_no of read_directory, i of           *)
(* validate_directory (counted from 1) and the cursor of the walk.         *)
(***************************************************************************)
\* segment 1 linked to itself
SelfImage == [HoleImage EXCEPT ![1] = Wr(@, OFF_next_segment, 1)]

\* the chains 1 -> 2 -> 1 and 1 -> 2 -> 2
CycleImages == { [TwoImage EXCEPT ![2] = Wr(@, OFF_next_segment, nxt)] : nxt \in 1..2 }

\* a link out of the directory, and a link to a segment of zeros
OffImages == { [TwoImage EXCEPT ![2] = Wr(@, OFF_next_segment, nxt)] :
                 nxt \in {3, DIR_LENGTH + 1} }

LoopImages == Images \cup {SelfImage} \cup CycleImages \cup OffImages

InitLoops ==
    /\ image \in LoopImages
    /\ stack \in StackWords
    /\ directory = stack_directory(stack)
    /\ pre = directory
    /\ pc = "read_directory"
    /\ nleft = 0
    /\ wlog = <<>>
    /\ last = NoOp
    /\ exit_status = "none"
    /\ host = [block_no |-> FIRST_DIR_BLOCK, i |-> 1, cursor |-> init_cursor(directory)]
    /\ put = NoPut

\* one turn of the do-while of read_directory
ReadTurn ==
    /\ pc = "read_directory"
    /\ directory' = [directory EXCEPT ![host.block_no - FIRST_DIR_BLOCK + 1] =
                        [dirty |-> FALSE, data |-> image[host.block_no]]]
    /\ LET block_no == next_segment(directory'[host.block_no - FIRST_DIR_BLOCK + 1])
       IN IF block_no > DIR_LENGTH
          THEN pc' = "exit" /\ exit_status' = "failure" /\ host' = host
          ELSE IF block_no # 0
          THEN pc' = pc /\ exit_status' = exit_status
               /\ host' = [host EXCEPT !.block_no = block_no]
          ELSE pc' = "validate_directory" /\ exit_status' = exit_status /\ host' = host
    /\ last' = [op |-> "read_block"]
    /\ UNCHANGED <<image, pre, stack, nleft, wlog, put>>

\* one turn of the do-while of validate_directory
ValidateTurn ==
    /\ pc = "validate_directory"
    /\ IF ~sane_segment(directory, host.i)
       THEN pc' = "exit" /\ exit_status' = "failure" /\ host' = host
       ELSE IF next_segment(directory[host.i]) # 0
       THEN pc' = pc /\ exit_status' = exit_status
            /\ host' = [host EXCEPT !.i = next_segment(directory[host.i])]
       ELSE pc' = "walk" /\ exit_status' = exit_status
            /\ host' = [host EXCEPT !.cursor = init_cursor(directory)]
    /\ last' = [op |-> "validate_directory"]
    /\ UNCHANGED <<image, directory, pre, stack, nleft, wlog, put>>

\* one turn of while (valid_entry(&cursor)) { get_entry(&cursor, &entry); },
\* or of the while of valid_entry itself
WalkTurn ==
    /\ pc = "walk"
    /\ IF ~overflowed_segment(directory, host.cursor)
       THEN pc' = pc /\ exit_status' = exit_status
            /\ host' = [host EXCEPT !.cursor = get_entry(directory, @).cursor]
       ELSE IF next_segment(directory[host.cursor.dir_block]) = 0
       THEN pc' = "done" /\ exit_status' = "success" /\ host' = host
       ELSE IF next_segment(directory[host.cursor.dir_block]) > DIR_LENGTH
       THEN pc' = "exit" /\ exit_status' = "abort" /\ host' = host
       ELSE pc' = pc /\ exit_status' = exit_status
            /\ host' = [host EXCEPT !.cursor =
                           [file_number |-> 1,
                            dir_block |-> next_segment(directory[@.dir_block]),
                            next_block |-> first_file_block(
                                directory[next_segment(directory[@.dir_block])]),
                            entry |-> OFF_file_entries]]
    /\ last' = [op |-> "valid_entry"]
    /\ UNCHANGED <<image, directory, pre, stack, nleft, wlog, put>>

NextLoops == ReadTurn \/ ValidateTurn \/ WalkTurn

\* a loop that can take a turn takes it
SpecLoops == InitLoops /\ [][NextLoops]_vars /\ WF_vars(NextLoops)

(***************************************************************************)
(* C23.  Termination on any image: for every image content, one whose      *)
(* next_segment links form a cycle included, read_directory and            *)
(* validate_directory terminate, with success or a definite error, and     *)
(* every cursor walk over an accepted directory terminates.                *)
(***************************************************************************)
C23_Terminates == <>(pc \in {"exit", "done"})

(***************************************************************************)
(* Processes on one image file.  Each runs main: it opens the file, asks   *)
(* for the lock, reads and writes blocks and exits.  image is the host     *)
(* file as the processes see it: whether it exists and which processes     *)
(* hold a lock on it; host holds for each process its command, where it is *)
(* in main, the blocks it has read or written and its exit status.         *)
(***************************************************************************)
MaxProcesses == 2

\* block reads and writes of one process
MaxIo == 2

Processes == 1..MaxProcesses

\* the commands by what they ask of open(): create without --exists asks for
\* O_CREAT | O_EXCL
LockCommands == {"dir", "copy_to_os8", "create", "create_exists"}

\* flock(os8_file, LOCK_SH | LOCK_NB): granted next to other holders
flock_sh(locks, p) == [ok |-> TRUE, locks |-> locks \cup {p}]

\* flock(os8_file, LOCK_EX | LOCK_NB): [ok, locks]
flock(locks, p) ==
    IF locks = {} THEN [ok |-> TRUE, locks |-> {p}] ELSE [ok |-> FALSE, locks |-> locks]

InitLock ==
    /\ image \in { [exists |-> e, locks |-> {}] : e \in BOOLEAN }
    /\ stack = 0
    /\ directory = stack_directory(stack)
    /\ pre = directory
    /\ pc = "processes"
    /\ nleft = 0
    /\ wlog = <<>>
    /\ last = NoOp
    /\ exit_status = "none"
    /\ host \in [Processes -> { [command |-> c, at |-> "main", io |-> 0, status |-> "none"] :
                                  c \in LockCommands }]
    /\ put = NoPut

\* open(os8_devicename, oflags, ...)
OpenImage(p) ==
    /\ host[p].at = "main"
    /\ IF (host[p].command = "create") = image.exists
       THEN /\ host' = [host EXCEPT ![p].at = "exit", ![p].status = "failure"]
            /\ image' = image
       ELSE /\ host' = [host EXCEPT ![p].at = "opened"]
            /\ image' = [image EXCEPT !.exists = TRUE]
    /\ last' = [op |-> "open", process |-> p]
    /\ UNCHANGED <<directory, pre, stack, pc, nleft, wlog, exit_status, put>>

\* if (flock(os8_file, LOCK_EX | LOCK_NB) == -1) { close; perror; exit }
LockImage(p) ==
    /\ host[p].at = "opened"
    /\ image' = [image EXCEPT !.locks = flock(image.locks, p).locks]
    /\ host' = IF flock(image.locks, p).ok THEN [host EXCEPT ![p].at = "locked"]
               ELSE [host EXCEPT ![p].at = "locked out", ![p].status = "failure"]
    /\ last' = [op |-> "flock", process |-> p]
    /\ UNCHANGED <<directory, pre, stack, pc, nleft, wlog, exit_status, put>>

\* a read_block or write_block call of the command
BlockIo(p) ==
    /\ host[p].at = "locked"
    /\ host[p].io < MaxIo
    /\ host' = [host EXCEPT ![p].io = @ + 1]
    /\ last' = [op |-> "block", process |-> p]
    /\ UNCHANGED <<image, directory, pre, stack, pc, nleft, wlog, exit_status, put>>

\* the end of main or an exit(EXIT_FAILURE) behind the lock: the descriptor,
\* which main never closes, goes with the process
ExitLocked(p, status) ==
    /\ host[p].at = "locked"
    /\ host' = [host EXCEPT ![p].at = "exit", ![p].status = status]
    /\ image' = [image EXCEPT !.locks = @ \ {p}]
    /\ last' = [op |-> "exit", process |-> p]
    /\ UNCHANGED <<directory, pre, stack, pc, nleft, wlog, exit_status, put>>

NextLock ==
    \E p \in Processes :
        \/ OpenImage(p)
        \/ LockImage(p)
        \/ BlockIo(p)
        \/ \E status \in {"success", "failure"} : ExitLocked(p, status)

SpecLock == InitLock /\ [][NextLock]_vars

(***************************************************************************)
(* C24.  Image lock mutual exclusion: with two processes running commands  *)
(* on the same image file, at most one at a time is past the lock          *)
(* acquisition; a process that finds the image locked exits with failure   *)
(* without reading or writing any block of the image, and the lock is held *)
(* until the holder exits.                                                 *)
(***************************************************************************)
C24_LockExcludes ==
    /\ Cardinality({ p \in Processes : host[p].at = "locked" }) <= 1
    /\ \A p \in Processes :
          /\ host[p].at = "locked out" => host[p].io = 0 /\ host[p].status = "failure"
          /\ host[p].at = "locked" => p \in image.locks
          /\ host[p].io > 0 => host[p].at \in {"locked", "exit"}

\* one process works on the image behind the lock, the other one has found
\* the image locked
C24_Witness ==
    \E p, q \in Processes :
        /\ host[p].at = "locked"
        /\ host[p].io > 0
        /\ host[q].at = "locked out"

(***************************************************************************)
(* The command line.  host holds the options in the order getopt_long      *)
(* returns them, each [c, optarg], and the file arguments behind them;     *)
(* stack is what the uninitialised command of main holds.  The action is   *)
(* main up to the open of the image.                                       *)
(***************************************************************************)
\* options on one command line
MaxOptions == 3

\* "2", "0" and "2x"
ColumnArgs == { <<50>>, <<48>>, <<50, 120>> }

Options ==
    { [c |-> c, optarg |-> <<>>] : c \in {"C", "d", "x", "Z", "E", "D", "q", "e"} }
    \cup { [c |-> "8", optarg |-> <<117, 46, 100, 115, 107>>] }
    \cup { [c |-> "c", optarg |-> a] : a \in ColumnArgs }

\* the file arguments, by what os8_file_spec_p, os8_contains_wildcard_p and
\* filename_type say of them: none, or one OS/8 text file
FileArgs == { <<>>, <<[os8_file_spec_p |-> TRUE, wildcard_p |-> FALSE, text_type |-> TRUE]>> }

\* what the stack may hold where command lies: a value of the enum, or none
CommandWords ==
    {"none", "dir", "delete", "create", "zero", "copy_to_os8", "copy_from_os8",
     "print_from_os8", "other"}

\* strtol(optarg, &temp, 10) from character k on: [value, temp], temp the
\* index of the first character that is not a digit
RECURSIVE strtol_from(_, _, _)
strtol_from(optarg, k, value) ==
    IF k > Len(optarg) \/ optarg[k] < 48 \/ optarg[k] > 57
    THEN [value |-> value, temp |-> k]
    ELSE strtol_from(optarg, k + 1, 10 * value + (optarg[k] - 48))

strtol(optarg) == strtol_from(optarg, 1, 0)

not_only_once_p(flag) == flag

\* what the option loop of main keeps
main_locals(command) ==
    [command |-> command, command_err_p |-> FALSE, exists_p |-> FALSE,
     os8_devicename |-> <<>>, format |-> "unknown", quiet_p |-> FALSE,
     columns |-> 2, columns_p |-> FALSE, print_empties_p |-> FALSE]

command_of(c) ==
    IF c = "C" THEN "create" ELSE IF c = "d" THEN "dir"
    ELSE IF c = "x" THEN "delete" ELSE "zero"

\* one turn of the option loop: switch (c)
option_case(m, o) ==
    IF o.c \in {"C", "d", "x", "Z"}
    THEN [m EXCEPT !.command_err_p = not_only_once_p(m.command # "none"),
                   !.command = command_of(o.c)]
    ELSE IF o.c = "E"
    THEN [m EXCEPT !.command_err_p = not_only_once_p(m.exists_p), !.exists_p = TRUE]
    ELSE IF o.c = "8"
    THEN [m EXCEPT !.command_err_p = not_only_once_p(m.os8_devicename # <<>>),
                   !.os8_devicename = o.optarg]
    ELSE IF o.c = "D"
    THEN [m EXCEPT !.command_err_p = not_only_once_p(m.format # "unknown"),
                   !.format = "dectape"]
    ELSE IF o.c = "c"
    THEN [m EXCEPT !.columns = strtol(o.optarg).value, !.columns_p = TRUE,
                   !.command_err_p =
                       IF strtol(o.optarg).temp <= Len(o.optarg)
                          \/ strtol(o.optarg).value <= 0
                       THEN TRUE ELSE @]
    ELSE IF o.c = "q"
    THEN [m EXCEPT !.command_err_p = not_only_once_p(m.quiet_p), !.quiet_p = TRUE]
    ELSE [m EXCEPT !.command_err_p = not_only_once_p(m.print_empties_p),
                   !.print_empties_p = TRUE]

RECURSIVE option_loop(_, _, _)
option_loop(m, options, k) ==
    IF k > Len(options) THEN m
    ELSE option_loop(option_case(m, options[k]), options, k + 1)

\* the sanity checks behind the loop that do not look at the files
sanity_checks(m) ==
    [m EXCEPT !.command_err_p =
        \/ @
        \/ m.exists_p /\ m.command # "create"
        \/ m.os8_devicename = <<>>
        \/ m.columns_p /\ m.command # "dir"
        \/ m.print_empties_p /\ m.command # "dir"]

\* switch (command) over the file arguments: [at, m]; at is "exit" for the
\* internal error
file_checks(m, args) ==
    IF m.command = "dir"
    THEN [at |-> "main",
          m |-> [m EXCEPT !.command_err_p =
                    \/ @
                    \/ Len(args) = 1 /\ ~args[1].os8_file_spec_p
                    \/ Len(args) > 1]]
    ELSE IF m.command \in {"create", "zero"}
    THEN [at |-> "main", m |-> [m EXCEPT !.command_err_p = @ \/ Len(args) # 0]]
    ELSE IF m.command = "delete"
    THEN [at |-> "main",
          m |-> [m EXCEPT !.command_err_p =
                    @ \/ \E k \in 1..Len(args) : ~args[k].os8_file_spec_p]]
    ELSE IF m.command = "none"
    THEN [at |-> "main",
          m |-> IF Len(args) = 0 THEN [m EXCEPT !.command_err_p = TRUE]
                ELSE IF /\ args[1].os8_file_spec_p
                        /\ ~args[1].wildcard_p
                        /\ args[1].text_type
                THEN [m EXCEPT !.command = "print_from_os8"]
                ELSE [m EXCEPT !.command_err_p = TRUE]]
    ELSE [at |-> "exit", m |-> m]

\* main from its first line to the open of the image: [at, status, m]; at is
\* "open" when main goes on to open the image
command_line(command, options, args) ==
    LET f == file_checks(sanity_checks(option_loop(main_locals(command), options, 1)),
                         args)
    IN IF f.at = "exit" \/ f.m.command_err_p
       THEN [at |-> "exit", status |-> "failure", m |-> f.m]
       ELSE [at |-> "open", status |-> "none", m |-> f.m]

RECURSIVE sequences(_, _)
\* the sequences over S of length n
sequences(S, n) ==
    IF n = 0 THEN {<<>>}
    ELSE { Append(s, x) : s \in sequences(S, n - 1), x \in S }

InitUsage ==
    /\ image = FreshImage
    /\ stack \in CommandWords
    /\ directory = stack_directory(0)
    /\ pre = directory
    /\ pc = "main"
    /\ nleft = 0
    /\ wlog = <<>>
    /\ last = NoOp
    /\ exit_status = "none"
    /\ host \in { [options |-> o, args |-> a] :
                    o \in UNION { sequences(Options, n) : n \in 1..MaxOptions },
                    a \in FileArgs }
    /\ put = NoPut

CommandLine ==
    /\ pc = "main"
    /\ pc' = command_line(stack, host.options, host.args).at
    /\ exit_status' = command_line(stack, host.options, host.args).status
    /\ last' = [op |-> "main",
                command |-> command_line(stack, host.options, host.args).m.command]
    /\ UNCHANGED <<image, directory, pre, stack, nleft, wlog, host, put>>

NextUsage == CommandLine

SpecUsage == InitUsage /\ [][NextUsage]_vars

\* the options of the sequence whose c is in cs
count_of(options, cs) == Cardinality({ k \in 1..Len(options) : options[k].c \in cs })

\* the sequence names two commands, repeats a once-only option or gives an
\* illegal value for --columns
usage_error(options) ==
    \/ count_of(options, {"C", "d", "x", "Z"}) > 1
    \/ \E c \in {"E", "8", "D", "q", "e"} : count_of(options, {c}) > 1
    \/ \E k \in 1..Len(options) :
          /\ options[k].c = "c"
          /\ options[k].optarg \in { <<48>>, <<50, 120>> }

(***************************************************************************)
(* C25.  Usage errors are sticky: if the option sequence names two of the  *)
(* commands --dir, --delete, --create, --zero, repeats a once-only option, *)
(* or gives an illegal --columns value, the program exits with non-zero    *)
(* status before opening the image, whatever valid options follow the      *)
(* offending one on the command line.                                      *)
(***************************************************************************)
C25_UsageErrorsSticky ==
    last.op = "main" /\ usage_error(host.options)
        => pc = "exit" /\ exit_status = "failure"

\* the image holds a directory that read_directory accepts and whose only
\* entry is an empty one
holds_empty_directory(img) ==
    /\ FIRST_DIR_BLOCK \in DOMAIN img
    /\ read_directory(img, stack_directory(0)).ok
    /\ Len(entries(read_directory(img, stack_directory(0)).dir)) = 1
    /\ entries(read_directory(img, stack_directory(0)).dir)[1].empty

(***************************************************************************)
(* C26.  Create gating: the create command writes a fresh filesystem       *)
(* whenever it is run without --exists on a not yet existing image file,   *)
(* without a prompt; run with --exists it writes the filesystem only after *)
(* the confirmation prompt is answered 'y' or 'Y'; and after a create      *)
(* command that exits successfully the image holds a valid empty           *)
(* directory.                                                              *)
(***************************************************************************)
C26_CreateGating ==
    /\ last.op = "create" /\ ~host.exists_p
          => last.called /\ holds_empty_directory(image)
    /\ last.op = "create" /\ host.exists_p /\ last.called => last.sure
    /\ host.command = "create" /\ last.op = "commit" /\ exit_status = "success"
          => holds_empty_directory(image)

(***************************************************************************)
(* The directory engine on its own: a directory is drawn, and enter (as    *)
(* stream_host_image_file calls it, the blocks written), delete (as        *)
(* delete_os8_files calls it) and consolidate are applied to it; nleft     *)
(* counts the operations left.                                             *)
(***************************************************************************)
\* operations in a row
MaxSteps == 2

\* entries drawn for the front of a segment
MaxEntries == 3

\* a file of one block, an empty entry of no block, an empty entry of two
EntryKinds == {"file", "none", "empty"}

kind_entry(kinds, k) ==
    IF kinds[k] = "file" THEN F(Fnn(k), 1)
    ELSE IF kinds[k] = "none" THEN E(0) ELSE E(2)

kind_blocks(kinds) ==
    Cardinality({ k \in 1..Len(kinds) : kinds[k] = "file" })
    + 2 * Cardinality({ k \in 1..Len(kinds) : kinds[k] = "empty" })

\* one segment: the entries drawn, the file D and the rest of the device
KindImage(kinds) ==
    [create_filesystem EXCEPT
        ![1] = Segment(OneWord,
                       [k \in 1..Len(kinds) |-> kind_entry(kinds, k)]
                       \o <<F(NameD, 1), E(filesystem_size - kind_blocks(kinds) - 1)>>,
                       FirstData, 0)]

KindImages == { KindImage(kinds) : kinds \in sequences(EntryKinds, MaxEntries) }

\* the flag words drawn for segment 1: none, the first entry, a word inside
\* the first entry, the third entry of a segment of one additional word that
\* begins with two files, and the last word of the block
EngineFlags ==
    {0, FLAG_BASE + OFF_file_entries, FLAG_BASE + OFF_file_entries + 1,
     FLAG_BASE + OFF_file_entries + 2 * (NAME_WORDS + 1 + OneWord), FLAG_MAX}

EngineImages ==
    { [img EXCEPT ![1] = Wr(@, OFF_flag_word, f)] :
        img \in KindImages \cup {HoleImage, GapsImage, TwoImage, FullImage, LoneImage},
        f \in EngineFlags }

\* the host files entered: E of no, one and two blocks
EngineFiles == { [name |-> NameE, size |-> s] : s \in {0, 2 * OS8_BLOCK_SIZE, 4 * OS8_BLOCK_SIZE} }

\* "os8:D", "os8:F*"
EngineArgs == { <<os8_prefix \o NameD>>, <<os8_prefix \o <<70, CH_STAR>> >> }

InitEngine ==
    /\ image \in EngineImages
    /\ stack = 0
    /\ directory = read_directory(image, stack_directory(stack)).dir
    /\ pre = directory
    /\ pc = "engine"
    /\ nleft = MaxSteps
    /\ wlog = <<>>
    /\ last = NoOp
    /\ exit_status = "none"
    /\ host = NoHost
    /\ put = NoPut

\* stream_host_image_file with every block written: allocate_os8_file, enter
\* and consolidate
EngineEnter(f) ==
    /\ pc = "engine"
    /\ nleft > 0
    /\ directory' = stream_host_image_file(directory, f.name, f.size, 0).dir
    /\ last' = [op |-> "enter", before |-> directory, argv |-> <<f.name>>,
                status |-> stream_host_image_file(directory, f.name, f.size, 0).status]
    /\ pc' = IF stream_host_image_file(directory, f.name, f.size, 0).status = "ok"
             THEN pc ELSE "exit"
    /\ nleft' = nleft - 1
    /\ UNCHANGED <<image, pre, stack, wlog, exit_status, host, put>>

\* delete_os8_files --quiet: delete_entry on the matches, then consolidate
EngineDelete(argv) ==
    /\ pc = "engine"
    /\ nleft > 0
    /\ directory' = delete_os8_files(argv, {}, directory)
    /\ last' = [op |-> "delete", before |-> directory, argv |-> argv, status |-> "ok"]
    /\ nleft' = nleft - 1
    /\ UNCHANGED <<image, pre, stack, pc, wlog, exit_status, host, put>>

EngineConsolidate ==
    /\ pc = "engine"
    /\ nleft > 0
    /\ directory' = consolidate(directory)
    /\ last' = [op |-> "consolidate", before |-> directory, argv |-> <<>>,
                status |-> "ok"]
    /\ nleft' = nleft - 1
    /\ UNCHANGED <<image, pre, stack, pc, wlog, exit_status, host, put>>

\* zero_filesystem on a DECtape image; device is what its device_t holds
\* before get_device
EngineZero(device) ==
    /\ pc = "engine"
    /\ nleft > 0
    /\ directory' = zero_filesystem(directory, "dectape", device)
    /\ last' = [op |-> "zero", before |-> directory, argv |-> <<>>, status |-> "ok"]
    /\ nleft' = nleft - 1
    /\ UNCHANGED <<image, pre, stack, pc, wlog, exit_status, host, put>>

\* write_directory at the end of main, every write_block succeeding
EngineCommit ==
    /\ pc = "engine"
    /\ directory' = write_directory(directory, image, 0).dir
    /\ image' = write_directory(directory, image, 0).img
    /\ last' = [op |-> "commit", before |-> directory, argv |-> <<>>,
                status |-> IF write_directory(directory, image, 0).ok THEN "ok"
                           ELSE "failed"]
    /\ pc' = "exit"
    /\ UNCHANGED <<pre, stack, nleft, wlog, exit_status, host, put>>

NextEngine ==
    \/ \E f \in EngineFiles : EngineEnter(f)
    \/ \E argv \in EngineArgs : EngineDelete(argv)
    \/ EngineConsolidate
    \/ \E device \in StackDevices : EngineZero(device)
    \/ EngineCommit

SpecEngine == InitEngine /\ [][NextEngine]_vars

\* an operation of the engine has returned successfully
engine_done == last.op \in {"enter", "delete", "consolidate"} /\ last.status = "ok"

\* the flag word of every segment of the chain is 0 or a word of the entry area
flags_in_entries(dir) ==
    \A s \in segments(dir) :
        \/ flag_word(dir[s]) = 0
        \/ /\ flag_word(dir[s]) \in FLAG_BASE..FLAG_MAX
           /\ flag_word(dir[s]) - FLAG_BASE >= OFF_file_entries
           /\ flag_word(dir[s]) - FLAG_BASE < OS8_BLOCK_SIZE

(***************************************************************************)
(* C27.  Flag-word invariant: from a directory in which every reachable    *)
(* segment's flag_word is 0 or lies in 01400..01777 and refers to a word   *)
(* position inside the segment's entry area, after every enter, delete and *)
(* consolidate every reachable segment's flag_word is again 0 or in        *)
(* 01400..01777 and, if non-zero, refers to a position inside the entry    *)
(* area, not inside the five header words and not past the block.          *)
(***************************************************************************)
C27_FlagWordInvariant ==
    engine_done /\ flags_in_entries(last.before) => flags_in_entries(directory)

\* the present files of es that none of the names of argv stands for: name,
\* first block and length, in the order of the walk
other_files(es, argv) ==
    [k \in 1..Len(SelectSeq(es, LAMBDA e :
                    /\ ~e.empty
                    /\ \A j \in 1..Len(argv) :
                          ~pattern_match_p(e.name, build_pattern(strip_device(argv[j]))))) |->
        LET e == SelectSeq(es, LAMBDA x :
                    /\ ~x.empty
                    /\ \A j \in 1..Len(argv) :
                          ~pattern_match_p(x.name, build_pattern(strip_device(argv[j]))))[k]
        IN [name |-> e.name, file_block |-> e.file_block, length |-> e.length]]

(***************************************************************************)
(* C28.  Existing files are preserved: enter of a new file, delete of a    *)
(* file, and consolidate never change the name, the starting data block or *)
(* the length of any other present file, as a cursor walk before and after *)
(* the operation shows them, also when enter moves entries between         *)
(* segments or appends a segment, and when consolidate removes a           *)
(* zero-length empty entry that other entries follow in its segment.       *)
(***************************************************************************)
C28_OtherFilesPreserved ==
    engine_done
        => other_files(entries(directory), last.argv)
              = other_files(entries(last.before), last.argv)

\* every word of every segment of the chain is a 12-bit word
twelve_bit(dir) == \A s \in segments(dir) : ~block_corrupted(dir[s].data)

(***************************************************************************)
(* C29.  Words stay 12-bit: from a valid directory whose words are all in  *)
(* 0..4095, after any sequence of enter, delete and consolidate every      *)
(* header word (number_files, first_file_block, next_segment, flag_word,   *)
(* additional_words) and every entry word of every reachable segment is in *)
(* 0..4095, so the block write at commit is never refused as corrupted.    *)
(***************************************************************************)
C29_WordsStayTwelveBit ==
    engine_done /\ validate_directory(last.before) /\ twelve_bit(last.before)
        => twelve_bit(directory)

\* es with every run of adjacent empty entries made one empty entry of the
\* sum of their lengths
RECURSIVE merged_runs(_)
merged_runs(es) ==
    IF Len(es) < 2 THEN es
    ELSE LET ms == merged_runs(SubSeq(es, 1, Len(es) - 1))
             e == es[Len(es)]
         IN IF e.empty /\ ms[Len(ms)].empty
            THEN [ms EXCEPT ![Len(ms)].length = @ + e.length]
            ELSE Append(ms, e)

\* what consolidation makes of the entries of one segment: runs merged, and
\* the empty entries of length zero dropped unless the entry is alone
consolidated(es) ==
    IF Len(merged_runs(es)) < 2 THEN merged_runs(es)
    ELSE SelectSeq(merged_runs(es), LAMBDA e : ~(e.empty /\ e.length = 0))

\* empty or not, name and length of the entries
shapes(es) ==
    [k \in 1..Len(es) |->
        [empty |-> es[k].empty, name |-> es[k].name, length |-> es[k].length]]

\* no empty entry of length zero next to another entry, no two empty entries
\* next to each other
tidy(es) ==
    /\ Len(es) > 1 => \A k \in 1..Len(es) : ~(es[k].empty /\ es[k].length = 0)
    /\ \A k \in 1..(Len(es) - 1) : ~(es[k].empty /\ es[k + 1].empty)

(***************************************************************************)
(* C30.  Consolidation result: after consolidate returns, no reachable     *)
(* segment that holds more than one entry contains a zero-length empty     *)
(* entry, and no reachable segment contains two empty entries adjacent to  *)
(* each other; each merged empty has the sum of the merged lengths and     *)
(* number_files is decremented once per removed entry.                     *)
(***************************************************************************)
C30_ConsolidationResult ==
    last.op = "consolidate"
        => \A s \in segments(directory) :
              /\ tidy(of_segment(entries(directory), s))
              /\ shapes(of_segment(entries(directory), s))
                    = shapes(consolidated(of_segment(entries(last.before), s)))
              /\ negate(number_files(directory[s]))
                    = Len(consolidated(of_segment(entries(last.before), s)))

\* every segment whose words differ from those of before is dirty
changes_dirty(dir, before) ==
    \A s \in 1..DIR_LENGTH : dir[s].data # before[s].data => dir[s].dirty

(***************************************************************************)
(* C31.  Every mutation marks its segment dirty: whenever enter (cross-    *)
(* segment moves and a newly appended segment included), delete_entry,     *)
(* consolidate or zero_filesystem changes any word of a segment, that      *)
(* segment's dirty flag is set when the operation returns, so that after a *)
(* successful commit the on-disk block of every reachable segment equals   *)
(* its in-memory content.                                                  *)
(***************************************************************************)
C31_MutationsMarkDirty ==
    /\ last.op \in {"enter", "delete", "consolidate", "zero"}
          => changes_dirty(directory, last.before)
    /\ last.op = "commit" /\ last.status = "ok"
          => \A s \in segments(directory) :
                image[s - 1 + FIRST_DIR_BLOCK] = directory[s].data

\* a commit has written a directory to which enter had appended a segment
C31_Witness ==
    /\ last.op = "commit"
    /\ last.status = "ok"
    /\ Cardinality(segments(directory)) > Cardinality(segments(pre))
    /\ \E s \in segments(directory) \ segments(pre) : image[s - 1 + FIRST_DIR_BLOCK] # pre[s].data

(***************************************************************************)
(* The step of enter that appends a segment, lines 880-897, on its own:    *)
(* the chain 1 -> ... -> blk ends in a segment without room.               *)
(***************************************************************************)
\* the additional words of the segments
AppendWords == {OneWord, OneWord + 1, OneWord + 2, MostWords}

\* the last entry of the last segment
AppendLast == {F(NameA, 1), F(NameA, 2), F(NameA, NAME_WORDS + 1 + OneWord), E(0), E(2), E(3)}

entry_words_of(aw, e) ==
    IF e.name = <<>> THEN empty_entry_length ELSE NAME_WORDS + 1 + aw

\* the files between an empty entry and the entry lst that leave no room
AppendFiles(aw, lst) ==
    (OS8_BLOCK_SIZE - OFF_file_entries - 2 * empty_entry_length - 1
        - entry_words_of(aw, lst)) \div (NAME_WORDS + 1 + aw)

AppendImage(aw, lst, blk) ==
    [i \in 1..Len(create_filesystem) |->
        IF i < blk THEN Segment(aw, Files(20 + i, 20 + i), FirstData + i - 1, i + 1)
        ELSE IF i = blk
        THEN Segment(aw, <<E(3)>> \o Files(1, AppendFiles(aw, lst)) \o <<lst>>,
                     FirstData + blk - 1, 0)
        ELSE create_filesystem[i]]

AppendImages ==
    { AppendImage(aw, lst, blk) :
        aw \in AppendWords, lst \in AppendLast, blk \in 1..(DIR_LENGTH - 1) }

InitAppend ==
    /\ image \in AppendImages
    /\ stack = 0
    /\ directory = read_directory(image, stack_directory(stack)).dir
    /\ pre = directory
    /\ pc = "append"
    /\ nleft = 0
    /\ wlog = <<>>
    /\ last = NoOp
    /\ exit_status = "none"
    /\ host = NoHost
    /\ put = NoPut

\* enter, lines 880-897: dir_block is the last segment of the chain, no
\* segment from the entry's on has room, and directory[index] is a slot
AppendSegment(dir_block) ==
    /\ pc = "append"
    /\ next_segment(directory[dir_block]) = 0
    /\ ~has_room(directory, dir_block, dir_block)
    /\ index_from_dir_block(dir_block) + 1 < DIR_LENGTH
    /\ directory' = append_segment(directory, dir_block)
    /\ last' = [op |-> "append", before |-> directory, dir_block |-> dir_block,
                index |-> index_from_dir_block(dir_block) + 1]
    /\ pc' = "move"
    /\ UNCHANGED <<image, pre, stack, nleft, wlog, exit_status, host, put>>

NextAppend == \E dir_block \in segments(directory) : AppendSegment(dir_block)

SpecAppend == InitAppend /\ [][NextAppend]_vars

\* the header and the entries the claim gives the segment appended behind a
\* predecessor whose last entry is temp_entry
appended_header(predecessor, temp_entry) ==
    <<negate(1), W16(temp_entry.file_block + temp_entry.length), 0, 0,
      additional_words(predecessor), 0, 0>>

(***************************************************************************)
(* C32.  Appending a segment: when enter finds no segment with room in the *)
(* forward chain and a slot remains, the new segment gets number_files =   *)
(* -1, flag_word = 0, next_segment = 0, additional_words copied from its   *)
(* predecessor, a first_file_block equal to the predecessor's last entry's *)
(* starting block plus that entry's length in blocks, a single zero-length *)
(* empty entry, and the predecessor's next_segment is set to the new       *)
(* segment's 1-based index.                                                *)
(***************************************************************************)
C32_AppendedSegment ==
    last.op = "append" =>
        /\ SubSeq(directory[last.index + 1].data, 1, OFF_file_entries + empty_entry_length)
              = appended_header(last.before[last.dir_block],
                                get_last_entry(last.before, last.dir_block))
        /\ next_segment(directory[last.dir_block]) = last.index + 1

(***************************************************************************)
(* delete_entry on its own, without the consolidate that delete_os8_files  *)
(* runs after its loop.                                                    *)
(***************************************************************************)
RemoveNames == {NameA, NameC, NameD, Fnn(1), Fnn(2), Fnn(3)}

InitRemove ==
    /\ image \in EngineImages
    /\ stack = 0
    /\ directory = read_directory(image, stack_directory(stack)).dir
    /\ pre = directory
    /\ pc = "remove"
    /\ nleft = MaxSteps
    /\ wlog = <<>>
    /\ last = NoOp
    /\ exit_status = "none"
    /\ host = NoHost
    /\ put = NoPut

\* delete_os8_files, lines 1714-1727: lookup finds the file and delete_entry
\* takes it out
DeleteEntry(filename) ==
    /\ pc = "remove"
    /\ nleft > 0
    /\ lookup(filename, directory, init_cursor(directory)).ok
    /\ directory' = delete_entry(directory,
                                 lookup(filename, directory, init_cursor(directory)).entry)
    /\ last' = [op |-> "delete_entry", before |-> directory,
                entry |-> lookup(filename, directory, init_cursor(directory)).entry]
    /\ nleft' = nleft - 1
    /\ UNCHANGED <<image, pre, stack, pc, wlog, exit_status, host, put>>

NextRemove == \E filename \in RemoveNames : DeleteEntry(filename)

SpecRemove == InitRemove /\ [][NextRemove]_vars

\* the entries es with the entry of number file_number of segment seg made an
\* empty entry of the same length at the same block
emptied_at(es, seg, file_number) ==
    [k \in 1..Len(es) |->
        IF es[k].seg = seg /\ es[k].number = file_number
        THEN [es[k] EXCEPT !.empty = TRUE, !.name = NoEntry.name]
        ELSE es[k]]

(***************************************************************************)
(* C33.  Deletion is in place: delete_entry of a present entry of length L *)
(* leaves the segment's number_files, first_file_block and next_segment    *)
(* unchanged, replaces the entry by an empty entry of the same length L at *)
(* the same starting block, leaves every other segment unchanged, and      *)
(* leaves the order and lengths of all other entries of the segment        *)
(* unchanged.                                                              *)
(***************************************************************************)
C33_DeletionInPlace ==
    last.op = "delete_entry" =>
        /\ SubSeq(directory[last.entry.dir_block].data, 1, OFF_next_segment + 1)
              = SubSeq(last.before[last.entry.dir_block].data, 1, OFF_next_segment + 1)
        /\ \A s \in 1..DIR_LENGTH :
              s # last.entry.dir_block => directory[s] = last.before[s]
        /\ entries(directory)
              = emptied_at(entries(last.before), last.entry.dir_block,
                           last.entry.file_number)

\* a file of the second segment, or one with entries behind it, was deleted
C33_Witness ==
    /\ last.op = "delete_entry"
    /\ ~last.entry.empty_file
    /\ last.entry.length > 0
    /\ \/ last.entry.dir_block = 2
       \/ last.entry.file_number + 1 < negate(number_files(directory[1]))
    /\ \E k \in 1..Len(entries(directory)) :
          /\ entries(directory)[k].empty
          /\ entries(directory)[k].length = last.entry.length
          /\ entries(directory)[k].file_block = last.entry.file_block

\* segment s of dir as it is, every other segment holding one file in place of
\* its entries
alone(dir, s) ==
    [t \in 1..DIR_LENGTH |->
        IF t = s THEN dir[t]
        ELSE [dir[t] EXCEPT
                 !.data = Wr(Wr(@, OFF_number_files, negate(1)), OFF_file_entries,
                             build_sixbit(NameB)[1])]]

\* the first entry of segment s
first_entry(dir, s) ==
    peek_entry(dir, [file_number |-> 1, dir_block |-> s,
                     next_block |-> first_file_block(dir[s]),
                     entry |-> OFF_file_entries])

(***************************************************************************)
(* C34.  Consolidation is segment-local: consolidate never merges an empty *)
(* entry that is last in one segment with an empty entry that is first in  *)
(* the next segment (the first entry of a segment, if an empty entry of    *)
(* some blocks, stays one, and what becomes of a segment does not depend   *)
(* on the entries of the others), never changes any segment's next_segment *)
(* or first_file_block, and never removes a segment from the chain.        *)
(***************************************************************************)
C34_ConsolidationLocal ==
    last.op = "consolidate" =>
        /\ \A s \in 1..DIR_LENGTH :
              /\ next_segment(directory[s]) = next_segment(last.before[s])
              /\ first_file_block(directory[s]) = first_file_block(last.before[s])
        /\ chain(directory) = chain(last.before)
        /\ \A s \in segments(last.before) :
              /\ directory[s].data = consolidate(alone(last.before, s))[s].data
              /\ first_entry(last.before, s).empty_file
                 /\ first_entry(last.before, s).length > 0
                    => /\ first_entry(directory, s).empty_file
                       /\ first_entry(directory, s).length
                             >= first_entry(last.before, s).length

\* consolidate has run over a segment that ends in an empty entry and is
\* followed by a segment that begins with one, and has merged entries
C34_Witness ==
    /\ last.op = "consolidate"
    /\ directory # last.before
    /\ \E s \in segments(last.before) :
          /\ next_segment(last.before[s]) # 0
          /\ get_last_entry(last.before, s).empty_file
          /\ get_last_entry(last.before, s).length > 0
          /\ first_entry(last.before, next_segment(last.before[s])).empty_file
          /\ first_entry(last.before, next_segment(last.before[s])).length > 0
          /\ first_entry(directory, next_segment(last.before[s])).empty_file

(***************************************************************************)
(* enter on segments that are full or nearly so.  The segments of an image *)
(* need not have the same number of additional words: validate_directory   *)
(* takes each segment's own.                                               *)
(***************************************************************************)
\* the words of the header and the entries of segment s
used_words(dir, s) ==
    IF number_files(dir[s]) = 0 THEN OFF_file_entries
    ELSE end_of_entry(dir, get_last_entry(dir, s))

\* the words a segment may hold when enter has added to it
FILLED_WORDS == OS8_BLOCK_SIZE - empty_entry_length

\* gaps times a file and an empty entry of one block, files files, and an
\* empty entry of rest blocks
FillEntries(gaps, files, rest) ==
    [k \in 1..(2 * gaps) |-> IF k % 2 = 1 THEN F(Fnn(50 + k), 1) ELSE E(1)]
    \o Files(1, files) \o <<E(rest)>>

fill_words(aw, gaps, files) ==
    OFF_file_entries + gaps * (NAME_WORDS + 1 + aw + empty_entry_length)
        + files * (NAME_WORDS + 1 + aw) + empty_entry_length

MaxGaps == 4

\* the most words short of a full block the segments start with: an entry and
\* the reserve of enter, and two more
MaxSlack == NAME_WORDS + 1 + MostWords + 2 * empty_entry_length

\* [gaps, files] of the segments of aw additional words that hold what enter
\* lets a segment hold, with at most MaxSlack words to spare in the block
Fillings(aw) ==
    { <<gaps, files>> \in (0..MaxGaps) \X (1..(OS8_BLOCK_SIZE \div NAME_WORDS)) :
        /\ fill_words(aw, gaps, files) <= FILLED_WORDS
        /\ fill_words(aw, gaps, files) >= OS8_BLOCK_SIZE - MaxSlack }

FillWords == {MostWords - 3, MostWords}

\* one segment
FillImage1(aw, g) ==
    [create_filesystem EXCEPT
        ![1] = Segment(aw, FillEntries(g[1], g[2], 3), FirstData, 0)]

\* two segments, the second of aw2 additional words
FillImage2(aw, g, aw2, g2) ==
    [create_filesystem EXCEPT
        ![1] = Segment(aw, FillEntries(g[1], g[2], 3), FirstData, 2),
        ![2] = Segment(aw2, FillEntries(g2[1], g2[2], 3),
                       FirstData + 2 * g[1] + g[2] + 3, 0)]

FillImages ==
    UNION { { FillImage1(aw, g) : g \in Fillings(aw) } : aw \in FillWords }
    \cup UNION { UNION { { FillImage2(aw, g, aw2, g2) :
                              g \in Fillings(aw), g2 \in Fillings(aw2) } :
                         aw2 \in FillWords } : aw \in FillWords }

InitFill ==
    /\ image \in FillImages
    /\ stack = 0
    /\ directory = read_directory(image, stack_directory(stack)).dir
    /\ pre = directory
    /\ pc = "engine"
    /\ nleft = 1
    /\ wlog = <<>>
    /\ last = NoOp
    /\ exit_status = "none"
    /\ host = NoHost
    /\ put = NoPut

NextFill == \E f \in EngineFiles : EngineEnter(f)

SpecFill == InitFill /\ [][NextFill]_vars

\* every segment of the chain fits in its block
fits(dir) == \A s \in segments(dir) : used_words(dir, s) <= OS8_BLOCK_SIZE

(***************************************************************************)
(* C35.  Segments are never filled completely: starting from a directory   *)
(* in which every segment's header and entries fit in its 256-word block,  *)
(* after every successful enter (the cross-segment moves it performs       *)
(* included) the header plus entries of every reachable segment occupy at  *)
(* most 254 words, so no entry extends past the end of its block and at    *)
(* least two words stay unused.                                            *)
(***************************************************************************)
C35_NeverFilled ==
    last.op = "enter" /\ last.status = "ok" /\ fits(last.before)
        => \A s \in segments(directory) : used_words(directory, s) <= FILLED_WORDS

(***************************************************************************)
(* The step of enter that moves the last entry of a segment to the front   *)
(* of the next one, lines 844-869, on its own.                             *)
(***************************************************************************)
\* the flag words next to either end of the range
MaxFlags == 20

MoveFlags ==
    {0} \cup (FLAG_BASE..(FLAG_BASE + MaxFlags)) \cup ((FLAG_MAX - MaxFlags)..FLAG_MAX)

\* the last entry of the first segment
MoveLast == {F(NameA, 1), F(NameA, 2), E(3)}

\* a first segment without room and a second one with flag word flag
MoveImage(aw, lst, flag) ==
    [create_filesystem EXCEPT
        ![1] = Wr(Segment(aw, <<E(3)>> \o Files(1, AppendFiles(aw, lst)) \o <<lst>>,
                          FirstData, 2),
                  OFF_next_segment, 2),
        ![2] = Wr(Segment(aw, <<F(NameC, 1), E(3)>>,
                          FirstData + AppendFiles(aw, lst) + 3 + lst.length, 0),
                  OFF_flag_word, flag)]

MoveImages ==
    { MoveImage(aw, lst, flag) :
        aw \in {MostWords - 1, MostWords}, lst \in MoveLast, flag \in MoveFlags }

InitMove ==
    /\ image \in MoveImages
    /\ stack = 0
    /\ directory = read_directory(image, stack_directory(stack)).dir
    /\ pre = directory
    /\ pc = "move"
    /\ nleft = 0
    /\ wlog = <<>>
    /\ last = NoOp
    /\ exit_status = "none"
    /\ host = NoHost
    /\ put = NoPut

\* enter, lines 839-869: dir_block has no room for the entry being entered,
\* the empty entry at its front, and the next segment has
MoveEntry(dir_block) ==
    /\ pc = "move"
    /\ next_segment(directory[dir_block]) # 0
    /\ ~has_room(directory, dir_block, dir_block)
    /\ has_room(directory, next_segment(directory[dir_block]), dir_block)
    /\ directory' =
          move_last_entry(directory, first_entry(directory, dir_block), dir_block,
                          next_segment(directory[dir_block]),
                          get_unused_ptr(directory, next_segment(directory[dir_block]),
                                         file_entry_length(directory[dir_block])
                                             + empty_entry_length)).dir
    /\ last' = [op |-> "move", before |-> directory, dir_block |-> dir_block,
                next |-> next_segment(directory[dir_block]),
                last_entry |-> get_last_entry(directory, dir_block)]
    /\ pc' = "moved"
    /\ UNCHANGED <<image, pre, stack, nleft, wlog, exit_status, host, put>>

NextMove == \E dir_block \in segments(directory) : MoveEntry(dir_block)

SpecMove == InitMove /\ [][NextMove]_vars

(***************************************************************************)
(* C36, as the specification states it.  Destination flag is untouched by  *)
(* a cross-segment move: when enter moves the last entry of one segment to *)
(* the front of the next segment N, N's flag_word after the move equals    *)
(* N's flag_word before the move, for every value of N's flag_word (0 or   *)
(* 01400..01777).                                                          *)
(***************************************************************************)
C36_DestinationFlagKept ==
    last.op = "move" =>
        flag_word(directory[last.next]) = flag_word(last.before[last.next])

\* the words the moved entry takes in segment N
moved_words(dir, N, last_entry) == entry_length(dir, [last_entry EXCEPT !.dir_block = N])

(***************************************************************************)
(* C36, amended.  When enter moves the last entry of one segment to the    *)
(* front of the next segment N, N's flag_word is kept if it is 0 or refers *)
(* to no position behind the first entry (at most 01405); otherwise it     *)
(* grows by the words the moved entry takes in N, and is 0 if that is more *)
(* than 01777.                                                             *)
(***************************************************************************)
C36_DestinationFlagFollows ==
    last.op = "move" =>
        flag_word(directory[last.next])
            = IF \/ flag_word(last.before[last.next]) = 0
                 \/ flag_word(last.before[last.next]) <= FLAG_BASE + OFF_file_entries
              THEN flag_word(last.before[last.next])
              ELSE IF flag_word(last.before[last.next])
                         + moved_words(last.before, last.next, last.last_entry) > FLAG_MAX
              THEN 0
              ELSE flag_word(last.before[last.next])
                       + moved_words(last.before, last.next, last.last_entry)

\* a file moved in front of a segment whose flag word refers to its second
\* entry, and the flag word went along
C36_Witness ==
    /\ last.op = "move"
    /\ ~last.last_entry.empty_file
    /\ flag_word(last.before[last.next])
          = FLAG_BASE + OFF_file_entries + file_entry_length(last.before[last.next])
    /\ flag_word(directory[last.next])
          = flag_word(last.before[last.next]) + file_entry_length(last.before[last.next])
    /\ negate(number_files(directory[last.next]))
          = negate(number_files(last.before[last.next])) + 1

(***************************************************************************)
(* File names and patterns.                                                *)
(***************************************************************************)
isalpha(c) == (c >= 65 /\ c <= 90) \/ (c >= 97 /\ c <= 122)

isalnum(c) == isalpha(c) \/ (c >= 48 /\ c <= 57)

\* a '*' must be the last character, the first character must be a letter
os8_filename_part_p(part) ==
    \A k \in 1..Len(part) :
        \/ \E j \in 1..(k - 1) : part[j] = CH_STAR
        \/ IF part[k] = CH_STAR THEN k = Len(part)
           ELSE isalnum(part[k]) /\ (k = 1 => isalpha(part[k]))

\* strcspn(filename, ".")
file_length(filename) ==
    IF dot_pos(filename) = 0 THEN Len(filename) ELSE dot_pos(filename) - 1

\* the longest file name and the longest extension, the '.' counted
MAX_FILE_LENGTH == 6

MAX_EXTENSION_LENGTH == 3

os8_filename_p(filename) ==
    LET extension_length == Len(filename) - file_length(filename)
    IN /\ ~(/\ extension_length # 0
            /\ \/ extension_length > MAX_EXTENSION_LENGTH
               \/ ~os8_filename_part_p(SubSeq(filename, file_length(filename) + 2,
                                              Len(filename))))
       /\ ~(\/ file_length(filename) < 1
            \/ file_length(filename) > MAX_FILE_LENGTH
            \/ ~os8_filename_part_p(SubSeq(filename, 1, file_length(filename))))

\* the longest file name of the names and the patterns
MaxName == 2

\* 'A', 'a', 'B' and, in extensions, 'A', '1'
NameChars == {65, 97, 66}

ExtensionChars == {65, 49}

\* the sequences over S of at most n elements
upto(S, n) == UNION { sequences(S, k) : k \in 0..n }

\* a part and the same with a '*' behind it
starred(parts) == parts \cup { p \o <<CH_STAR>> : p \in parts }

\* with no extension, and with every extension of es behind a '.'
dotted(ns, es) == ns \cup { n \o <<CH_DOT>> \o e : n \in ns, e \in es }

PatternNames ==
    { f \in dotted(upto(NameChars, MaxName), upto(ExtensionChars, MAX_EXTENSION_LENGTH - 1)) :
        os8_filename_p(f) }

Patterns ==
    { f \in dotted(starred(upto(NameChars, MaxName)),
                   starred(upto(ExtensionChars, MAX_EXTENSION_LENGTH - 1))) :
        os8_filename_p(f) }

InitPattern ==
    /\ image = <<>>
    /\ stack = 0
    /\ directory = <<>>
    /\ pre = <<>>
    /\ pc = "match"
    /\ nleft = 0
    /\ wlog = <<>>
    /\ last = NoOp
    /\ exit_status = "none"
    /\ host \in [name : PatternNames, pattern : Patterns]
    /\ put = NoPut

\* lookup, line 793: the name of an entry as enter stores it against the
\* pattern of an argument
MatchName ==
    /\ pc = "match"
    /\ last' = [op |-> "match",
                result |-> pattern_match_p(build_sixbit(host.name),
                                           build_pattern(host.pattern))]
    /\ pc' = "matched"
    /\ UNCHANGED <<image, directory, pre, stack, nleft, wlog, exit_status, host, put>>

NextPattern == MatchName

SpecPattern == InitPattern /\ [][NextPattern]_vars

lower(s) == [k \in 1..Len(s) |-> tolower(s[k])]

name_half(f) == SubSeq(f, 1, file_length(f))

extension_half(f) == SubSeq(f, file_length(f) + 2, Len(f))

\* half n of a name against half p of a pattern
half_matches(n, p) ==
    IF Len(p) > 0 /\ p[Len(p)] = CH_STAR
    THEN /\ Len(n) >= Len(p) - 1
         /\ SubSeq(lower(n), 1, Len(p) - 1) = SubSeq(lower(p), 1, Len(p) - 1)
    ELSE lower(n) = lower(p)

(***************************************************************************)
(* C37.  Pattern semantics: for every legal OS/8 name and every legal      *)
(* pattern built by build_pattern, pattern_match_p is true exactly when    *)
(* the name half of the entry equals the pattern's name half (or, if the   *)
(* pattern's name half ends in '*', starts with the characters before the  *)
(* '*') and the same holds for the extension half; a pattern without '*'   *)
(* matches only the identical name, compared case-insensitively.           *)
(***************************************************************************)
C37_PatternSemantics ==
    last.op = "match" =>
        /\ last.result
              = (/\ half_matches(name_half(host.name), name_half(host.pattern))
                 /\ half_matches(extension_half(host.name), extension_half(host.pattern)))
        /\ (\A k \in 1..Len(host.pattern) : host.pattern[k] # CH_STAR)
              => last.result
                    = (/\ lower(name_half(host.name)) = lower(name_half(host.pattern))
                       /\ lower(extension_half(host.name))
                             = lower(extension_half(host.pattern)))

\* "aB.A1" matches the pattern "A*.A*"
C37_Witness ==
    /\ last.op = "match"
    /\ last.result
    /\ host.name = <<97, 66, CH_DOT, 65, 49>>
    /\ host.pattern = <<65, CH_STAR, CH_DOT, 65, CH_STAR>>

(***************************************************************************)
(* C38.  Text packing does not depend on earlier files: in a copy-to-image *)
(* command with several text sources, the packed words produced for each   *)
(* file equal the words produced when that file is copied alone, i.e. the  *)
(* three-characters-per-two-words grouping restarts at the first character *)
(* of every file regardless of how many characters earlier files           *)
(* contained.                                                              *)
(***************************************************************************)
C38_PackingIndependent ==
    last.op = "copy" /\ "packed" \in DOMAIN last
        => last.packed = temp_file(last.text, NoPut, last.seen).t

(***************************************************************************)
(* The commands that are to leave the image alone: one run of main() for   *)
(* dir, a copy from the image, a print, a zero and a delete.  host.declined *)
(* tells whether every prompt of the command was answered no.              *)
(***************************************************************************)
QuietCommands == {"dir", "copy_from", "print", "zero", "delete"}

QuietImages ==
    { with_data(img) : img \in {FreshImage, HoleImage, GapsImage, MatchImage, LoneImage} }

\* "A", "C" and "F*"
QuietNames == {NameA, NameC, <<70, CH_STAR>>}

InitQuiet ==
    /\ image \in QuietImages
    /\ stack \in StackWords
    /\ directory = stack_directory(stack)
    /\ pre = directory
    /\ pc = "none"
    /\ nleft = 0
    /\ wlog = <<>>
    /\ last = NoOp
    /\ exit_status = "none"
    /\ host \in { [input |-> NoFile, name |-> name, output |-> NoFile,
                   script |-> command, declined |-> FALSE] :
                      name \in QuietNames, command \in QuietCommands }
    /\ put = NoPut

ReadForQuiet == ReadDirectory(host.script, 0)

\* main, lines 2144-2146: print_directory walks the entries
PrintDirectory ==
    /\ pc = "dir"
    /\ last' = [op |-> "dir", listing |-> entries(directory)]
    /\ pc' = "commit"
    /\ UNCHANGED <<image, directory, pre, stack, nleft, wlog, exit_status, host, put>>

print_os8_text_file(filename, dir, img) ==
    IF lookup(filename, dir, init_cursor(dir)).ok
    THEN stream_os8_text_file(lookup(filename, dir, init_cursor(dir)).entry, img)
    ELSE [ok |-> FALSE, bytes |-> <<>>]

\* main, lines 2178-2182
PrintOs8TextFile ==
    /\ pc = "print"
    /\ last' = [op |-> "print",
                ok |-> print_os8_text_file(os8_prefix \o host.name, directory, image).ok]
    /\ pc' = IF print_os8_text_file(os8_prefix \o host.name, directory, image).ok
             THEN "commit" ELSE "none"
    /\ exit_status' = IF print_os8_text_file(os8_prefix \o host.name, directory, image).ok
                      THEN "none" ELSE "failure"
    /\ UNCHANGED <<image, directory, pre, stack, nleft, wlog, host, put>>

\* main, lines 2152-2159: sure is the answer to "Are you sure?"
ZeroAnswered(sure, device) ==
    /\ pc = "zero"
    /\ directory' = IF sure THEN zero_filesystem(directory, "dectape", device)
                    ELSE directory
    /\ last' = [op |-> "zero", before |-> directory]
    /\ host' = [host EXCEPT !.declined = ~sure]
    /\ pc' = "commit"
    /\ UNCHANGED <<image, pre, stack, nleft, wlog, exit_status, put>>

\* the names of the files of dir
file_names(dir) ==
    { entries(dir)[k].name : k \in { j \in 1..Len(entries(dir)) : ~entries(dir)[j].empty } }

\* main, lines 2147-2151: every "Delete file?" is answered yes, or every one no
DeleteOs8Files(yes) ==
    /\ pc = "delete"
    /\ directory' = delete_os8_files(<<os8_prefix \o host.name>>,
                                     IF yes THEN {} ELSE file_names(directory),
                                     directory)
    /\ last' = [op |-> "delete", argv |-> <<os8_prefix \o host.name>>,
                before |-> directory]
    /\ host' = [host EXCEPT !.declined = ~yes]
    /\ pc' = "commit"
    /\ UNCHANGED <<image, pre, stack, nleft, wlog, exit_status, put>>

NextQuiet ==
    \/ ReadForQuiet
    \/ PrintDirectory
    \/ \E is_dir_p \in DirFlags(host.output) : CopyOs8Files(is_dir_p)
    \/ PrintOs8TextFile
    \/ \E sure \in BOOLEAN : \E device \in StackDevices : ZeroAnswered(sure, device)
    \/ \E yes \in BOOLEAN : DeleteOs8Files(yes)
    \/ \E fail_at \in 0..1 : WriteDirectory(fail_at)

SpecQuiet == InitQuiet /\ [][NextQuiet]_vars

\* the command of the run changes nothing, by its kind or because every
\* prompt was declined
read_only ==
    \/ host.script \in {"dir", "copy_from", "print"}
    \/ host.script \in {"zero", "delete"} /\ host.declined

(***************************************************************************)
(* C39.  Read-only commands do not write: the dir, copy-from-image and     *)
(* print-text commands, and a zero or delete command whose confirmation    *)
(* prompts are all declined, perform no block write on the image - no      *)
(* segment of the chain is dirty when write_directory runs at the end of   *)
(* the command.                                                            *)
(***************************************************************************)
C39_ReadOnlyCommands ==
    /\ read_only => wlog = <<>>
    /\ read_only /\ pc = "commit"
          => \A s \in segments(directory) : ~directory[s].dirty

====
